---- MODULE Spec2Model ----
\* A model of the ArDrive core planning and pricing components:
\*   - the bundle packer          (src/src/utils/bundle_packer.ts)
\*   - the network price estimator (src/src/pricing/ar_data_price_network_estimator.ts)
\*   - the chunked transaction uploader (src/src/arfs/arfs_transaction_uploader.ts)
\*   - the folder hierarchy queried by ArFSDAO (src/unnamed/part_001)
\*   - the community contract oracle exercised by src/unnamed/part_000
\* Methods are operators from (this, arguments) to [ret, self]: the value the
\* method returns (or the fact that it throws) and the object after the call.
EXTENDS Integers, Sequences, FiniteSets, TLC

VARIABLES
    packers,              \* packer instance -> the BundlePacker object (or its construction outcome)
    calls,                \* packer instance -> the packIntoBundle calls made so far: <<[plan, ret]>>
    lastOp,               \* the last packer operation and what it returned
    feas,                 \* the feasibility scenario: the byte counts under test and the canPack answer
    cachedPricePerChunk,  \* the estimator's cache: chunk-count key -> Winston
    lookups,              \* caller -> the state of its getBaseWinstonPriceForByteCount call
    oracleLog,            \* the oracle queries issued so far: <<[caller, byteCount]>>
    lookupLog,            \* the lookups that have returned or thrown, in completion order
    inverse,              \* the getByteCountForWinston call: its position, prices and result
    uploader,             \* the ArFSTransactionUploader object
    batch,                \* the batchUploadChunks call: its position
    workers,              \* worker slot -> the uploadChunk call running in it
    net,                  \* what the endpoint and the callers have observed of the upload
    hier,                 \* the flat folder collection and the subtree query made on its hierarchy
    contract,             \* the community contract oracle and the calls made on it
    listing,              \* the paginated listing call: its cursor, pages and entities
    fileUpload            \* the uploadFile call: its position and its two transactions

packerVars == <<packers, calls, lastOp, feas>>
priceVars == <<cachedPricePerChunk, lookups, oracleLog, lookupLog, inverse>>
uploadVars == <<uploader, batch, workers, net>>
daoVars == <<listing, fileUpload>>
indexVars == <<hier, contract, listing, fileUpload>>
vars == <<packers, calls, lastOp, feas, cachedPricePerChunk, lookups, oracleLog, lookupLog, inverse,
          uploader, batch, workers, net, hier, contract, listing, fileUpload>>

\* ---------------------------------------------------------------- bounds

\* packIntoBundle calls per packer instance
MaxCalls == 3
\* length of the byteCounts argument of canPackDataItemsWithByteCounts
MaxByteCounts == 3
\* getBaseWinstonPriceForByteCount calls per estimator
MaxLookups == 3

\* ---------------------------------------------------------------- values

undefined == "undefined"

\* how a call ends: it returns a value or throws an error
Returns(v) == [kind |-> "return", value |-> v]
Throws(e) == [kind |-> "throw", error |-> e]

Min(S) == CHOOSE x \in S : \A y \in S : x <= y

RECURSIVE SumSeq(_)
SumSeq(s) == IF s = <<>> THEN 0 ELSE Head(s) + SumSeq(Tail(s))

\* JavaScript numbers that can be passed as maxDataItemLimit: NaN, the
\* infinities and the finite rationals num/den.
NaN == [kind |-> "NaN"]
PosInfinity == [kind |-> "Infinity"]
NegInfinity == [kind |-> "-Infinity"]
Finite(n, d) == [kind |-> "finite", num |-> n, den |-> d]

LimitInputs ==
    {NaN, PosInfinity, NegInfinity}
        \cup {Finite(n, 1) : n \in {-1, 0, 1, 2, 5}}
        \cup {Finite(n, 2) : n \in {3, 4, 5}}

\* Number.isFinite
NumberIsFinite(x) == x.kind = "finite"
\* Number.isInteger
NumberIsInteger(x) == x.kind = "finite" /\ x.num % x.den = 0
\* x < 2 (false for NaN and Infinity, true for -Infinity)
LessThanTwo(x) ==
    \/ x.kind = "-Infinity"
    \/ x.kind = "finite" /\ x.num < 2 * x.den
\* the integer a finite integral number denotes
IntegerValue(x) == x.num \div x.den

\* ByteCount values (non-negative integers) used as maxBundleSize and as plan sizes
BundleSizes == {10000}
PlanByteCounts == {3000, 4000, 6000, 11000}
PlanDataItems == {1, 2}
UploadStatsRefs == {undefined, "stats"}

DataItemPlans ==
    [uploadStats : UploadStatsRefs,
     byteCountAsDataItems : PlanByteCounts,
     numberOfDataItems : PlanDataItems]

Packers == {"p1", "p2"}

\* ---------------------------------------------------------------- PlannedBundle

remainingSize(bundle) == bundle.maxBundleSize - bundle.totalSizeOfBundle
remainingDataItems(bundle) == bundle.maxDataItemLimit - bundle.totalDataItemsInBundle

\* a faulty variant: the listing receives every plan's uploadStats, absent or not
addToBundleAlwaysLists(bundle, plan) ==
    [bundle EXCEPT
        !.totalSizeOfBundle = @ + plan.byteCountAsDataItems,
        !.totalDataItemsInBundle = @ + plan.numberOfDataItems,
        !.uploadStatsInBundle = Append(@, plan.uploadStats)]

addToBundle(bundle, plan) ==
    [bundle EXCEPT
        !.totalSizeOfBundle = @ + plan.byteCountAsDataItems,
        !.totalDataItemsInBundle = @ + plan.numberOfDataItems,
        !.uploadStatsInBundle =
            IF plan.uploadStats # undefined THEN Append(@, plan.uploadStats) ELSE @]

\* new PlannedBundle(initialDataItemPlan, maxBundleSize, maxDataItemLimit)
NewPlannedBundle(plan, maxBundleSize, maxDataItemLimit) ==
    addToBundle(
        [uploadStatsInBundle |-> <<>>,
         totalSizeOfBundle |-> 0,
         totalDataItemsInBundle |-> 0,
         maxBundleSize |-> maxBundleSize,
         maxDataItemLimit |-> maxDataItemLimit],
        plan)

\* ---------------------------------------------------------------- BundlePacker

\* a faulty variant: one bundle list shared by every instance (a static field)
bundlesShared(self) == packers["p1"].plannedBundles

\* get bundles()
bundles(self) == self.plannedBundles

\* a faulty variant: the constructor accepts a limit of 1
constructorAcceptsOne(maxBundleSize, maxDataItemLimit) ==
    IF \/ ~NumberIsFinite(maxDataItemLimit)
       \/ ~NumberIsInteger(maxDataItemLimit)
       \/ (maxDataItemLimit.kind = "finite" /\ maxDataItemLimit.num < maxDataItemLimit.den)
    THEN [state |-> "threw"]
    ELSE [state |-> "ready",
          maxBundleSize |-> maxBundleSize,
          maxDataItemLimit |-> IntegerValue(maxDataItemLimit),
          plannedBundles |-> <<>>]

\* new LowestIndexBundlePacker(maxBundleSize, maxDataItemLimit): the object, or
\* the fact that the constructor threw
constructor(maxBundleSize, maxDataItemLimit) ==
    IF \/ ~NumberIsFinite(maxDataItemLimit)
       \/ ~NumberIsInteger(maxDataItemLimit)
       \/ LessThanTwo(maxDataItemLimit)
    THEN [state |-> "threw"]
    ELSE [state |-> "ready",
          maxBundleSize |-> maxBundleSize,
          maxDataItemLimit |-> IntegerValue(maxDataItemLimit),
          plannedBundles |-> <<>>]

\* the loop of packIntoBundle from `index` on (index is 0-based, as in the code)
RECURSIVE packScan(_, _, _)
packScan(self, plan, index) ==
    IF index < Len(bundles(self))
    THEN LET bundle == bundles(self)[index + 1] IN
         IF /\ plan.byteCountAsDataItems <= remainingSize(bundle)
            /\ plan.numberOfDataItems <= remainingDataItems(bundle)
         THEN [ret |-> index,
               self |-> [self EXCEPT !.plannedBundles =
                            [bundles(self) EXCEPT ![index + 1] = addToBundle(bundle, plan)]]]
         ELSE packScan(self, plan, index + 1)
    ELSE LET pushed == Append(bundles(self),
                              NewPlannedBundle(plan, self.maxBundleSize, self.maxDataItemLimit)) IN
         [ret |-> Len(pushed) - 1,
          self |-> [self EXCEPT !.plannedBundles = pushed]]

\* a faulty variant: always packs into a new bundle
packIntoBundleAlwaysNew(self, plan) ==
    LET pushed == Append(bundles(self),
                         NewPlannedBundle(plan, self.maxBundleSize, self.maxDataItemLimit)) IN
    [ret |-> Len(pushed) - 1,
     self |-> [self EXCEPT !.plannedBundles = pushed]]

\* a faulty variant: packs into the last bundle that fits instead of the first
packIntoBundleLastFit(self, plan) ==
    LET fits == {i \in 1..Len(bundles(self)) :
                    /\ plan.byteCountAsDataItems <= remainingSize(bundles(self)[i])
                    /\ plan.numberOfDataItems <= remainingDataItems(bundles(self)[i])} IN
    IF fits = {}
    THEN packIntoBundleAlwaysNew(self, plan)
    ELSE LET i == CHOOSE x \in fits : \A y \in fits : y <= x IN
         [ret |-> i - 1,
          self |-> [self EXCEPT !.plannedBundles =
                       [bundles(self) EXCEPT ![i] = addToBundle(@, plan)]]]

\* a faulty variant: a full bundle is dropped once a new one is opened
packIntoBundleDropsFull(self, plan) ==
    LET r == packScan(self, plan, 0) IN
    IF Len(r.self.plannedBundles) > 2
    THEN [ret |-> r.ret - 1,
          self |-> [r.self EXCEPT !.plannedBundles = Tail(@)]]
    ELSE r

\* LowestIndexBundlePacker.packIntoBundle
packIntoBundle(self, plan) == packScan(self, plan, 0)

\* a faulty variant: only the size is checked
canPackIgnoresCount(self, byteCounts) ==
    IF byteCounts = <<>>
    THEN [ret |-> Throws("TypeError"), self |-> self]
    ELSE [ret |-> Returns(~(SumSeq(byteCounts) > self.maxBundleSize)), self |-> self]

\* a faulty variant: feasibility is decided by trial-packing into this packer
canPackByTrial(self, byteCounts) ==
    IF byteCounts = <<>>
    THEN [ret |-> Throws("TypeError"), self |-> self]
    ELSE [ret |-> Returns(~(SumSeq(byteCounts) > self.maxBundleSize
                                \/ Len(byteCounts) > self.maxDataItemLimit)),
          self |-> [self EXCEPT !.plannedBundles =
                       Append(@, NewPlannedBundle(
                           [uploadStats |-> undefined,
                            byteCountAsDataItems |-> SumSeq(byteCounts),
                            numberOfDataItems |-> Len(byteCounts)],
                           self.maxBundleSize, self.maxDataItemLimit))]]

\* LowestIndexBundlePacker.canPackDataItemsWithByteCounts. reduce() without an
\* initial value throws a TypeError on an empty array.
canPackDataItemsWithByteCounts(self, byteCounts) ==
    IF byteCounts = <<>>
    THEN [ret |-> Throws("TypeError"), self |-> self]
    ELSE IF SumSeq(byteCounts) > self.maxBundleSize
    THEN [ret |-> Returns(FALSE), self |-> self]
    ELSE IF Len(byteCounts) > self.maxDataItemLimit
    THEN [ret |-> Returns(FALSE), self |-> self]
    ELSE [ret |-> Returns(TRUE), self |-> self]

\* ---------------------------------------------------------------- packer operations

\* sequences over S of length 0..n
SeqsUpTo(S, n) == UNION {[1..k -> S] : k \in 0..n}

\* the arguments of canPackDataItemsWithByteCounts during a packing session: an
\* empty array, one that fits, one too big, and one with three items
SessionByteCounts == {<<>>, <<3000>>, <<11000>>, <<3000, 3000, 3000>>}

PackerInit ==
    /\ packers = [p \in Packers |-> [state |-> "none"]]
    /\ calls = [p \in Packers |-> <<>>]
    /\ lastOp = [op |-> "none"]

FeasIdle == feas = [byteCounts |-> <<>>, answer |-> [kind |-> "none"]]

\* new LowestIndexBundlePacker(maxBundleSize, maxDataItemLimit)
Construct(p, maxBundleSize, maxDataItemLimit) ==
    /\ packers[p].state = "none"
    /\ packers' = [packers EXCEPT ![p] = constructor(maxBundleSize, maxDataItemLimit)]
    /\ lastOp' = [op |-> "constructor", packer |-> p, maxDataItemLimit |-> maxDataItemLimit]
    /\ UNCHANGED calls

\* packer.packIntoBundle(plan)
Pack(p, plan) ==
    /\ packers[p].state = "ready"
    /\ Len(calls[p]) < MaxCalls
    /\ LET r == packIntoBundle(packers[p], plan) IN
       /\ packers' = [packers EXCEPT ![p] = r.self]
       /\ calls' = [calls EXCEPT ![p] = Append(@, [plan |-> plan, ret |-> r.ret])]
       /\ lastOp' = [op |-> "packIntoBundle", packer |-> p, ret |-> r.ret]

\* packer.canPackDataItemsWithByteCounts(byteCounts)
CanPack(p, byteCounts) ==
    /\ packers[p].state = "ready"
    /\ LET r == canPackDataItemsWithByteCounts(packers[p], byteCounts) IN
       /\ packers' = [packers EXCEPT ![p] = r.self]
       /\ lastOp' = [op |-> "canPackDataItemsWithByteCounts", packer |-> p, ret |-> r.ret]
    /\ UNCHANGED calls


\* ---------------------------------------------------------------- price estimator

\* byteCountOfChunk: 256 KiB
byteCountOfChunk == 262144

\* a faulty variant: rounds down instead of up
bytesToChunksFloor(bytes) == bytes \div byteCountOfChunk

\* bytesToChunks: Math.ceil(+bytes / +byteCountOfChunk)
bytesToChunks(bytes) == (bytes + byteCountOfChunk - 1) \div byteCountOfChunk

\* the property name `${chunks}` under which a price is cached
chunkKey(chunks) == ToString(chunks)

\* cachedPricePerChunk[`${chunks}`]: the cached Winston, or undefined
cachedPrice(cache, chunks) ==
    IF chunkKey(chunks) \in DOMAIN cache
    THEN [kind |-> "winston", value |-> cache[chunkKey(chunks)]]
    ELSE [kind |-> "undefined"]

\* a faulty variant: the oracle is asked for the price of the whole chunks
oracleArgumentRounded(byteCount) == bytesToChunks(byteCount) * byteCountOfChunk

\* the argument of oracle.getWinstonPriceForByteCount: the byteCount as given
oracleArgument(byteCount) == byteCount

Callers == {"c1", "c2"}
\* the byte counts looked up: 0, 1, one full chunk, one byte more
LookupByteCounts == {0, 1, byteCountOfChunk, byteCountOfChunk + 1}
\* the prices (Winston) the oracle may answer with; they vary between queries
OraclePrices == {5, 7}

PriceIdle ==
    /\ cachedPricePerChunk = <<>>
    /\ lookups = [c \in Callers |-> [pc |-> "idle"]]
    /\ oracleLog = <<>>
    /\ lookupLog = <<>>
    /\ inverse = [pc |-> "idle", winston |-> 0, base |-> 0, one |-> 0,
                  priced |-> FALSE, result |-> [kind |-> "none"]]

InFlight == {c \in Callers : lookups[c].pc = "awaitOracle"}

\* getBaseWinstonPriceForByteCount(byteCount), up to its return on a cache hit
\* or to the await of the oracle query it issues on a miss
Lookup(c, byteCount) ==
    /\ lookups[c].pc = "idle"
    /\ Len(lookupLog) + Cardinality(InFlight) < MaxLookups
    /\ LET chunks == bytesToChunks(byteCount)
           hit == cachedPrice(cachedPricePerChunk, chunks)
       IN  IF hit.kind # "undefined"
           THEN /\ lookupLog' = Append(lookupLog,
                        [caller |-> c, byteCount |-> byteCount, query |-> 0,
                         outcome |-> Returns(hit.value)])
                /\ UNCHANGED <<lookups, oracleLog>>
           ELSE /\ oracleLog' = Append(oracleLog,
                        [caller |-> c, byteCount |-> oracleArgument(byteCount)])
                /\ lookups' = [lookups EXCEPT ![c] =
                        [pc |-> "awaitOracle", byteCount |-> byteCount,
                         chunks |-> chunks, query |-> Len(oracleLog) + 1]]
                /\ UNCHANGED lookupLog
    /\ UNCHANGED cachedPricePerChunk

\* this.cachedPricePerChunk[`${chunks}`] = winstonPrice
cacheAfterReply(cache, chunks, winstonPrice) == (chunkKey(chunks) :> winstonPrice) @@ cache

\* a faulty variant: a failed query is remembered as a price of 0
cacheAfterFailureNegative(cache, chunks) == (chunkKey(chunks) :> 0) @@ cache

\* the cache after the awaited oracle query rejects: the assignment is not reached
cacheAfterFailure(cache, chunks) == cache

\* the oracle answers: the price is cached under the chunk count and returned
OracleReply(c, winstonPrice) ==
    /\ lookups[c].pc = "awaitOracle"
    /\ cachedPricePerChunk' =
          cacheAfterReply(cachedPricePerChunk, lookups[c].chunks, winstonPrice)
    /\ lookupLog' = Append(lookupLog,
          [caller |-> c, byteCount |-> lookups[c].byteCount, query |-> lookups[c].query,
           outcome |-> Returns(winstonPrice)])
    /\ lookups' = [lookups EXCEPT ![c] = [pc |-> "idle"]]
    /\ UNCHANGED oracleLog

\* the oracle query fails: the error propagates, nothing is cached
OracleFail(c) ==
    /\ lookups[c].pc = "awaitOracle"
    /\ lookupLog' = Append(lookupLog,
          [caller |-> c, byteCount |-> lookups[c].byteCount, query |-> lookups[c].query,
           outcome |-> Throws("oracle")])
    /\ lookups' = [lookups EXCEPT ![c] = [pc |-> "idle"]]
    /\ cachedPricePerChunk' = cacheAfterFailure(cachedPricePerChunk, lookups[c].chunks)
    /\ UNCHANGED oracleLog

\* ---------------------------------------------------------------- Winston arithmetic

\* Winston.minus: a Winston is a non-negative integer, a negative difference is an error
WinstonMinus(a, b) ==
    IF a - b < 0
    THEN Throws("Winston value should be a non-negative integer!")
    ELSE Returns(a - b)

\* Winston.dividedBy(divisor, 'ROUND_DOWN'): the quotient rounded down; a
\* division by zero has no integer result
WinstonDividedByRoundDown(a, divisor) ==
    IF divisor = 0
    THEN Throws("Winston value should be a non-negative integer!")
    ELSE Returns(a \div divisor)

\* ---------------------------------------------------------------- getByteCountForWinston

\* the amounts (Winston) whose capacity is asked for
WinstonAmounts == {0, 4, 5, 6, 7, 8, 9, 12}

\* a faulty variant: the price of one chunk is taken off the amount instead of the base price
byteCountForPricesAboveOneChunk(winston, baseWinstonPrice, oneChunkWinstonPrice) ==
    IF winston >= oneChunkWinstonPrice
    THEN LET perChunkEstCost == WinstonMinus(oneChunkWinstonPrice, baseWinstonPrice) IN
         IF perChunkEstCost.kind = "throw" THEN perChunkEstCost
         ELSE LET aboveBase == WinstonMinus(winston, oneChunkWinstonPrice) IN
              IF aboveBase.kind = "throw" THEN aboveBase
              ELSE LET estimatedChunks ==
                           WinstonDividedByRoundDown(aboveBase.value, perChunkEstCost.value) IN
                   IF estimatedChunks.kind = "throw" THEN estimatedChunks
                   ELSE Returns(estimatedChunks.value * byteCountOfChunk)
    ELSE Returns(0)

\* getByteCountForWinston from the two base prices on: lines 65-79
byteCountForPrices(winston, baseWinstonPrice, oneChunkWinstonPrice) ==
    IF winston >= oneChunkWinstonPrice
    THEN LET perChunkEstCost == WinstonMinus(oneChunkWinstonPrice, baseWinstonPrice) IN
         IF perChunkEstCost.kind = "throw" THEN perChunkEstCost
         ELSE LET aboveBase == WinstonMinus(winston, baseWinstonPrice) IN
              IF aboveBase.kind = "throw" THEN aboveBase
              ELSE LET estimatedChunks ==
                           WinstonDividedByRoundDown(aboveBase.value, perChunkEstCost.value) IN
                   IF estimatedChunks.kind = "throw" THEN estimatedChunks
                   ELSE Returns(estimatedChunks.value * byteCountOfChunk)
    ELSE Returns(0)

\* the outcome of the caller's lookup that has just ended
LastOutcome == lookupLog[Len(lookupLog)].outcome

\* getByteCountForWinston(winston), to the await of the base price for 0 bytes
InverseCall ==
    /\ inverse.pc \in {"idle", "done"}
    /\ \E winston \in WinstonAmounts :
          inverse' = [pc |-> "awaitBase", winston |-> winston, base |-> 0, one |-> 0,
                      priced |-> FALSE, result |-> [kind |-> "none"]]
    /\ Lookup("c1", 0)
    /\ UNCHANGED <<packerVars, uploadVars, indexVars>>

\* the base price has arrived (or its lookup threw): on to the price of 1 byte
InverseBasePrice ==
    /\ inverse.pc = "awaitBase"
    /\ lookups["c1"].pc = "idle"
    /\ IF LastOutcome.kind = "throw"
       THEN /\ inverse' = [inverse EXCEPT !.pc = "done", !.result = LastOutcome]
            /\ UNCHANGED <<cachedPricePerChunk, lookups, oracleLog, lookupLog>>
       ELSE /\ inverse' = [inverse EXCEPT !.pc = "awaitOne", !.base = LastOutcome.value]
            /\ Lookup("c1", 1)
    /\ UNCHANGED <<packerVars, uploadVars, indexVars>>

\* the one-chunk price has arrived (or its lookup threw): the estimate is computed
InverseOneChunkPrice ==
    /\ inverse.pc = "awaitOne"
    /\ lookups["c1"].pc = "idle"
    /\ inverse' =
          IF LastOutcome.kind = "throw"
          THEN [inverse EXCEPT !.pc = "done", !.result = LastOutcome]
          ELSE [inverse EXCEPT
                   !.pc = "done", !.one = LastOutcome.value, !.priced = TRUE,
                   !.result = byteCountForPrices(inverse.winston, inverse.base,
                                                 LastOutcome.value)]
    /\ UNCHANGED <<cachedPricePerChunk, lookups, oracleLog, lookupLog>>
    /\ UNCHANGED <<packerVars, uploadVars, indexVars>>

\* ---------------------------------------------------------------- the chunked uploader: values

\* Maximum amount of chunks uploaded in the transaction body
MAX_CHUNKS_IN_BODY == 1
\* Maximum errors accumulated before the upload attempt ends
MAX_ERRORS == 100

FATAL_CHUNK_UPLOAD_ERRORS ==
    {"invalid_json", "chunk_too_big", "data_path_too_big", "offset_too_big",
     "data_size_too_big", "chunk_proof_ratio_not_attractive", "invalid_proof"}

\* worker slots: chunk workers that can be running at once, lingering ones included
MaxWorkers == 3
\* batchUploadChunks is called while fewer than this many errors and header POSTs have occurred
MaxAttempts == 2

Workers == 1..MaxWorkers
\* transaction.chunks.chunks.length of the transactions uploaded
TotalChunksValues == {0, 1, 2, 3, 4}
\* highest chunk offset the bookkeeping follows
LastOffset == CHOOSE n \in TotalChunksValues : \A m \in TotalChunksValues : m <= n
\* the maxConcurrentChunks settings
ConcurrencyValues == {1, 2}

\* a value without a status property: it differs from every status
NoStatus == 0

\* what awaiting an axios.post promise can give: the promise resolves with a
\* response, or rejects with an error object or with a bare string
Response(status, statusText) ==
    [settled |-> "resolved", kind |-> "response", status |-> status,
     statusText |-> statusText, text |-> ""]
ErrorObject ==
    [settled |-> "rejected", kind |-> "error", status |-> NoStatus,
     statusText |-> undefined, text |-> ""]
RejectedText(text) ==
    [settled |-> "rejected", kind |-> "string", status |-> NoStatus,
     statusText |-> undefined, text |-> text]

RequestOutcomes ==
    {Response(200, "OK"), Response(201, "Created"), Response(503, "timeout"),
     Response(400, "invalid_proof"), ErrorObject, RejectedText("invalid_proof")}

\* a 2xx response
IsSuccessResponse(resp) == resp.kind = "response" /\ resp.status \in 200..299

\* respIsError: resp === typeof 'string', that is resp === "string"
respIsError(resp) == resp.kind = "string" /\ resp.text = "string"

\* the error retryRequestUntilMaxErrors classifies
requestError(resp) == IF respIsError(resp) THEN resp.text ELSE resp.statusText

\* a faulty variant: the budget is spent only once the counter has passed the maximum
errorBudgetSpentLate(totalErrors) == totalErrors > MAX_ERRORS

\* the counter has reached the maximum (after its increment)
errorBudgetSpent(totalErrors) == totalErrors >= MAX_ERRORS

\* retryRequestUntilMaxErrors up to its delay: what the awaited value leads to
\* with the error counter at totalErrors
requestVerdict(resp, totalErrors) ==
    IF ~(respIsError(resp) \/ resp.status # 200) THEN "ok"
    ELSE IF requestError(resp) \in FATAL_CHUNK_UPLOAD_ERRORS THEN "fatal"
    ELSE IF errorBudgetSpent(totalErrors + 1) THEN "exhausted"
    ELSE "retry"

\* the error counter after the awaited value has been classified
errorsAfter(resp, totalErrors) ==
    IF requestVerdict(resp, totalErrors) \in {"exhausted", "retry"}
    THEN totalErrors + 1
    ELSE totalErrors

\* the outcomes that are neither a success nor fatal
RetryableOutcomes ==
    {r \in RequestOutcomes :
        ~IsSuccessResponse(r) /\ requestError(r) \notin FATAL_CHUNK_UPLOAD_ERRORS}

\* pctComplete: Math.trunc((uploadedChunks / totalChunks) * 100); 0 / 0 is
\* NaN and n / 0 is Infinity, which Math.trunc returns unchanged
pctComplete(self) ==
    IF self.totalChunks = 0
    THEN IF self.uploadedChunks = 0 THEN NaN ELSE PosInfinity
    ELSE Finite((self.uploadedChunks * 100) \div self.totalChunks, 1)

\* the chunk named by `Fatal error uploading chunk ${this.chunkOffset}`
fatalErrorChunk(self) == self.chunkOffset

\* get isComplete
isComplete(self) == self.txPosted /\ self.uploadedChunks = self.totalChunks

\* a faulty variant: the chunk after the cursor is taken (++chunkOffset)
claimChunkAfterAdvance(self) ==
    [chunk |-> self.chunkOffset + 1, self |-> [self EXCEPT !.chunkOffset = @ + 1]]

\* this.chunkOffset++ : the chunk claimed and the uploader after the claim
claimChunk(self) ==
    [chunk |-> self.chunkOffset, self |-> [self EXCEPT !.chunkOffset = @ + 1]]

\* the number of uploadChunk workers batchUploadChunks starts
numOfConcurrentUploadPromises(self) ==
    IF self.totalChunks - self.chunkOffset < self.maxConcurrentChunks
    THEN self.totalChunks - self.chunkOffset
    ELSE self.maxConcurrentChunks

\* a faulty variant: the data always travels with the header
transactionToUploadWithData(self) == "data"

\* the body of the POST /tx request: the transaction with its data when the
\* chunks fit into the header body, with empty data otherwise
transactionToUpload(self) ==
    IF self.totalChunks <= MAX_CHUNKS_IN_BODY THEN "data" ELSE "empty"

\* the uploader after construction
NewUploader(totalChunks, maxConcurrentChunks) ==
    [totalChunks |-> totalChunks, maxConcurrentChunks |-> maxConcurrentChunks,
     chunkOffset |-> 0, txPosted |-> FALSE, totalErrors |-> 0, uploadedChunks |-> 0]

\* the transactions handed to the constructor: the id is missing, empty or
\* set; the chunks are missing or prepared (a list of some length)
TransactionIds == {undefined, "", "tx id"}
NoChunks == [kind |-> "undefined"]
PreparedChunks(length) == [kind |-> "chunks", length |-> length]
Transactions ==
    [id : TransactionIds,
     chunks : {NoChunks} \cup {PreparedChunks(n) : n \in TotalChunksValues}]

\* a constructor call that has not run yet, with its arguments
NewExpression(transaction, maxConcurrentChunks) ==
    [transaction |-> transaction, maxConcurrentChunks |-> maxConcurrentChunks]

\* a faulty variant: the id of the transaction is not looked at
constructUploaderUnsigned(transaction, maxConcurrentChunks) ==
    IF transaction.chunks = NoChunks
    THEN Throws("Transaction chunks not prepared")
    ELSE Returns(NewUploader(transaction.chunks.length, maxConcurrentChunks))

\* new ArFSTransactionUploader({ transaction, gatewayUrl, maxConcurrentChunks })
constructUploader(transaction, maxConcurrentChunks) ==
    IF transaction.id \in {undefined, ""}
    THEN Throws("Transaction is not signed")
    ELSE IF transaction.chunks = NoChunks
         THEN Throws("Transaction chunks not prepared")
         ELSE Returns(NewUploader(transaction.chunks.length, maxConcurrentChunks))

\* the value is an uploader object
IsUploader(value) == "txPosted" \in DOMAIN value

IdleWorker == [pc |-> "idle", chunk |-> 0, rejected |-> FALSE, own |-> FALSE]
IdleBatch == [pc |-> "idle", rejected |-> FALSE]

\* the bookkeeping of what the endpoint and the callers observe
NoTraffic ==
    [txPosts |-> 0, txBody |-> "none", txAccepted |-> FALSE, waits |-> 0, failed |-> 0,
     chunkFatal |-> FALSE,
     chunks |-> [o \in 0..LastOffset |->
                    [claims |-> 0, posts |-> 0, counted |-> 0, accepted |-> FALSE]]]

UploadIdle ==
    /\ uploader = NewUploader(1, 1)
    /\ batch = IdleBatch
    /\ workers = [w \in Workers |-> IdleWorker]
    /\ net = NoTraffic

\* ---------------------------------------------------------------- the chunked uploader: steps

\* The uploader runs on one thread: a step is the code between two awaits.
\* UploadState is the uploader with its running calls; the operators below
\* take it to the state at the next await.
UploadState == [self |-> uploader, batch |-> batch, workers |-> workers, net |-> net]

Becomes(st) ==
    /\ uploader' = st.self
    /\ batch' = st.batch
    /\ workers' = st.workers
    /\ net' = st.net

\* the worker slots in which no uploadChunk call is running
FreeWorkers(ws) == {w \in Workers : ws[w].pc \in {"idle", "done", "thrown"}}

RECURSIVE LowestOf(_, _)
LowestOf(S, k) ==
    IF k <= 0 \/ S = {} THEN {}
    ELSE {Min(S)} \cup LowestOf(S \ {Min(S)}, k - 1)

\* uploadChunk in slot w, from its loop test to the await of its POST /chunk
uploadChunkLoop(st, w) ==
    IF st.self.chunkOffset < st.self.totalChunks
    THEN LET claim == claimChunk(st.self) IN
         [st EXCEPT
            !.self = claim.self,
            !.workers[w].pc = "request",
            !.workers[w].chunk = claim.chunk,
            !.workers[w].rejected = FALSE,
            !.net.chunks[claim.chunk].claims = @ + 1,
            !.net.chunks[claim.chunk].posts = @ + 1]
    ELSE [st EXCEPT !.workers[w].pc = "done"]

\* uploadChunk in slot w after its request went through: the chunk is counted
chunkUploaded(st, w) ==
    uploadChunkLoop(
        [st EXCEPT
            !.self.uploadedChunks = @ + 1,
            !.net.chunks[st.workers[w].chunk].counted = @ + 1],
        w)

\* the for loop of batchUploadChunks: uploadChunk() is called for each slot
RECURSIVE startEach(_, _)
startEach(st, slots) ==
    IF slots = {} THEN st
    ELSE LET w == Min(slots) IN
         startEach(uploadChunkLoop([st EXCEPT !.workers[w].own = TRUE], w), slots \ {w})

\* batchUploadChunks from the computation of the worker count to the await
\* of Promise.all; the workers of earlier calls are no longer awaited
startWorkers(st) ==
    LET n == numOfConcurrentUploadPromises(st.self)
        released == [st EXCEPT !.workers = [w \in Workers |-> [@[w] EXCEPT !.own = FALSE]]]
    IN IF n <= 0
       THEN [released EXCEPT !.batch.pc = "returned"]
       ELSE startEach([released EXCEPT !.batch.pc = "workers"],
                      LowestOf(FreeWorkers(st.workers), n))

\* Promise.all after the step of the worker in slot w: it rejects with the
\* first worker that throws and resolves when all have returned
settleBatch(st, w) ==
    IF st.batch.pc = "workers" /\ st.workers[w].own
    THEN IF st.workers[w].pc = "thrown"
         THEN [st EXCEPT !.batch.pc = "thrown"]
         ELSE IF \A v \in Workers : st.workers[v].own => st.workers[v].pc = "done"
              THEN [st EXCEPT !.batch.pc = "returned"]
              ELSE st
    ELSE st

\* postTransactionHeader after its request went through, and batchUploadChunks
\* from there to its next await or return
headerPosted(st) ==
    LET uploadInBody == st.self.totalChunks <= MAX_CHUNKS_IN_BODY
        posted == [st EXCEPT
                     !.self.txPosted = TRUE,
                     !.self.chunkOffset = IF uploadInBody THEN @ + MAX_CHUNKS_IN_BODY ELSE @,
                     !.self.uploadedChunks = IF uploadInBody THEN @ + MAX_CHUNKS_IN_BODY ELSE @]
    IN IF isComplete(posted.self)
       THEN [posted EXCEPT !.batch.pc = "returned"]
       ELSE startWorkers(posted)

\* the slots a call needs are free
SlotsFree ==
    Cardinality(FreeWorkers(workers)) >= numOfConcurrentUploadPromises(uploader)

\* the caller calls batchUploadChunks (no call is pending)
BatchUploadChunks ==
    /\ batch.pc \in {"idle", "returned", "thrown"}
    /\ SlotsFree
    /\ IF ~uploader.txPosted
       THEN Becomes([UploadState EXCEPT
                        !.batch = [pc |-> "header", rejected |-> FALSE],
                        !.net.txPosts = @ + 1,
                        !.net.txBody = transactionToUpload(uploader)])
       ELSE Becomes(startWorkers(UploadState))

\* the POST /tx promise settles with resp
HeaderSettles(resp) ==
    /\ batch.pc = "header"
    /\ SlotsFree
    /\ LET verdict == requestVerdict(resp, uploader.totalErrors)
           st == [UploadState EXCEPT
                     !.self.totalErrors = errorsAfter(resp, @),
                     !.net.txAccepted = @ \/ IsSuccessResponse(resp),
                     !.net.failed = IF IsSuccessResponse(resp) THEN @ ELSE @ + 1]
       IN IF verdict = "ok" THEN Becomes(headerPosted(st))
          ELSE IF verdict = "retry"
               THEN Becomes([st EXCEPT
                                !.batch = [pc |-> "headerDelay",
                                           rejected |-> resp.settled = "rejected"],
                                !.net.waits = @ + 1])
               ELSE Becomes([st EXCEPT !.batch.pc = "thrown"])

\* the delay after a failed POST /tx is over: the request is awaited again
HeaderDelayElapses ==
    /\ batch.pc = "headerDelay"
    /\ SlotsFree
    /\ IF batch.rejected
       THEN Becomes([UploadState EXCEPT !.batch.pc = "thrown"])
       ELSE Becomes(headerPosted(UploadState))

\* the POST /chunk promise of the worker in slot w settles with resp
ChunkSettles(w, resp) ==
    /\ workers[w].pc = "request"
    /\ LET verdict == requestVerdict(resp, uploader.totalErrors)
           st == [UploadState EXCEPT
                     !.self.totalErrors = errorsAfter(resp, @),
                     !.net.chunks[workers[w].chunk].accepted = @ \/ IsSuccessResponse(resp),
                     !.net.failed = IF IsSuccessResponse(resp) THEN @ ELSE @ + 1,
                     !.net.chunkFatal = @ \/ verdict = "fatal"]
       IN IF verdict = "ok" THEN Becomes(settleBatch(chunkUploaded(st, w), w))
          ELSE IF verdict = "retry"
               THEN Becomes([st EXCEPT
                                !.workers[w].pc = "delay",
                                !.workers[w].rejected = resp.settled = "rejected",
                                !.net.waits = @ + 1])
               ELSE Becomes(settleBatch([st EXCEPT !.workers[w].pc = "thrown"], w))

\* the delay after a failed POST /chunk is over: the request is awaited again
ChunkDelayElapses(w) ==
    /\ workers[w].pc = "delay"
    /\ IF workers[w].rejected
       THEN Becomes(settleBatch([UploadState EXCEPT !.workers[w].pc = "thrown"], w))
       ELSE Becomes(settleBatch(chunkUploaded(UploadState, w), w))

\* ---------------------------------------------------------------- the folder hierarchy

\* folders per flat collection of folder entities (revisions of one folder included)
MaxEntities == 3

FolderIds == {"a", "b", "c"}
\* the parent of a root folder
NoParent == "root folder"
\* a folder entity: its id and the id of its parent folder
FolderEntities == [entityId : FolderIds, parentFolderId : FolderIds \cup {NoParent}]

\* Number.MAX_SAFE_INTEGER (2^53 - 1); the largest integer the checker
\* represents stands for it, only its exceeding every folder depth matters
MAX_SAFE_INTEGER == 2147483647

Range(s) == {s[i] : i \in 1..Len(s)}

\* the revision of folder id that the hierarchy retains: the last one given
latestRevision(entities, id) ==
    entities[CHOOSE i \in 1..Len(entities) :
                /\ entities[i].entityId = id
                /\ \A j \in (i + 1)..Len(entities) : entities[j].entityId # id]

\* the children of folder id, in the order their folders first appear
RECURSIVE childrenOf(_, _, _)
childrenOf(entities, id, i) ==
    IF i > Len(entities) THEN <<>>
    ELSE LET e == entities[i]
             rest == childrenOf(entities, id, i + 1)
         IN IF /\ latestRevision(entities, e.entityId).parentFolderId = id
               /\ \A j \in 1..(i - 1) : entities[j].entityId # e.entityId
            THEN <<e.entityId>> \o rest
            ELSE rest

\* FolderHierarchy.newFromEntities: the parent -> children adjacency
newFromEntities(entities) ==
    [id \in {e.entityId : e \in Range(entities)} |-> childrenOf(entities, id, 1)]

\* a faulty variant: the traversal stops one level late
depthExhaustedLate(maxDepth) == maxDepth < 0

\* no further level is to be visited
depthExhausted(maxDepth) == maxDepth = 0

\* a faulty variant: the folder the query started from is not remembered
alreadyVisitedBelowRoot(visited, id) ==
    visited # <<>> /\ id \in Range(Tail(visited))

\* the cycle guard: folder id has been visited by this query
alreadyVisited(visited, id) == id \in Range(visited)

\* the traversal below folderIdSubtreeFromFolderId: folder id is visited
\* unless it has been (the cycle guard), then its children one level down
RECURSIVE visitFolder(_, _, _, _)
RECURSIVE visitFolders(_, _, _, _)
visitFolder(hierarchy, id, maxDepth, visited) ==
    IF alreadyVisited(visited, id) THEN visited
    ELSE IF depthExhausted(maxDepth) THEN Append(visited, id)
    ELSE visitFolders(hierarchy, hierarchy[id], maxDepth - 1, Append(visited, id))
visitFolders(hierarchy, ids, maxDepth, visited) ==
    IF ids = <<>> THEN visited
    ELSE visitFolders(hierarchy, Tail(ids), maxDepth,
                      visitFolder(hierarchy, Head(ids), maxDepth, visited))

\* FolderHierarchy.folderIdSubtreeFromFolderId
folderIdSubtreeFromFolderId(hierarchy, folderId, maxDepth) ==
    visitFolder(hierarchy, folderId, maxDepth, <<>>)

\* ArFSDAO.getChildrenFolderIds
getChildrenFolderIds(folderId, allFolderEntitiesOfDrive) ==
    folderIdSubtreeFromFolderId(newFromEntities(allFolderEntitiesOfDrive), folderId,
                                MAX_SAFE_INTEGER)

NoQuery == [op |-> "none", folderId |-> "", maxDepth |-> 0, ids |-> <<>>]

HierarchyIdle == hier = [entities |-> <<>>, query |-> NoQuery]

\* ---------------------------------------------------------------- the community contract oracle

\* getCommunityContract calls per oracle
MaxContractCalls == 3

\* the contracts the contract reader may return
CommunityContracts == {"contract 1", "contract 2"}
NoContract == "no contract"

\* new ArDriveContractOracle(contractReaders, skipSetup): nothing is cached;
\* unless skipSetup, getCommunityContract() is called and not awaited
NewContractOracle(skipSetup) ==
    [communityContract |-> NoContract, contractPromise |-> ~skipSetup,
     readContractCalls |-> IF skipSetup THEN 0 ELSE 1]

\* a faulty variant: the cached contract is not used
getCommunityContractAlwaysReads(self) ==
    IF self.contractPromise
    THEN [how |-> "promise", self |-> self]
    ELSE [how |-> "read",
          self |-> [self EXCEPT !.contractPromise = TRUE, !.readContractCalls = @ + 1]]

\* a faulty variant: the pending read is not shared
getCommunityContractNeverShares(self) ==
    IF self.communityContract # NoContract
    THEN [how |-> "cached", self |-> self]
    ELSE [how |-> "read",
          self |-> [self EXCEPT !.contractPromise = TRUE, !.readContractCalls = @ + 1]]

\* getCommunityContract up to its return or await: the cached contract, the
\* pending promise, or a new contract read
getCommunityContract(self) ==
    IF self.communityContract # NoContract
    THEN [how |-> "cached", self |-> self]
    ELSE IF self.contractPromise
         THEN [how |-> "promise", self |-> self]
         ELSE [how |-> "read",
               self |-> [self EXCEPT !.contractPromise = TRUE, !.readContractCalls = @ + 1]]

\* the callers of getCommunityContract
ContractCallers == {"caller 1", "caller 2", "caller 3"}

\* the state of an oracle and of the getCommunityContract calls made on it:
\* the calls awaiting the contract read, in the order they were made, and
\* the calls that have returned
NewContractState(skipSetup) ==
    [self |-> NewContractOracle(skipSetup), skipSetup |-> skipSetup,
     awaiting |-> <<>>, returned |-> <<>>]

ContractIdle == contract = NewContractState(TRUE)

\* ---------------------------------------------------------------- the paginated listings

\* pages received by one listing call
MaxPages == 3

\* the three listing methods of ArFSDAO
ListingMethods ==
    {"getAllFoldersOfPrivateDrive", "getPrivateFilesWithParentFolderIds", "getEntitiesInFolder"}

\* the edges of a GraphQL response: a cursor and a node; the Entity-Type tag
\* of the last node is neither 'file' nor 'folder'
Edges ==
    {[cursor |-> "cursor 1", node |-> "entity 1", entityType |-> "folder"],
     [cursor |-> "cursor 2", node |-> "entity 2", entityType |-> "file"],
     [cursor |-> "cursor 3", node |-> "entity 3", entityType |-> "drive"]}

\* response.data.data.transactions: at most two edges and pageInfo.hasNextPage;
\* a page that announces a next page has at least one edge
Pages ==
    {page \in [edges : {<<>>} \cup {<<e>> : e \in Edges}
                              \cup {<<e, f>> : e \in Edges, f \in Edges},
               hasNextPage : BOOLEAN] :
        page.hasNextPage => page.edges # <<>>}

\* let cursor = ''
EmptyCursor == ""

\* a faulty variant: the cursor of the first edge of the page is kept
cursorAfterFirstEdge(cursor, edges) ==
    IF edges = <<>> THEN cursor ELSE edges[1].cursor

\* edges.map(async (edge) => { cursor = edge.cursor; ... }): the callbacks
\* assign the cursor in order, synchronously, before their first await
cursorAfter(cursor, edges) ==
    IF edges = <<>> THEN cursor ELSE edges[Len(edges)].cursor

\* the entities the builders make of the edges of a page, in the order of the edges
RECURSIVE builtEntities(_)
builtEntities(edges) ==
    IF edges = <<>> THEN <<>> ELSE <<Head(edges).node>> \o builtEntities(Tail(edges))

\* getEntitiesInFolder: 'Entity-Type tag is missing or invalid!'
entityTypeInvalid(method, edges) ==
    /\ method = "getEntitiesInFolder"
    /\ \E i \in 1..Len(edges) : edges[i].entityType \notin {"file", "folder"}

\* a listing call that has issued its first query
NewListing(method) ==
    [method |-> method, pc |-> "query", cursor |-> EmptyCursor, hasNextPage |-> TRUE,
     allEntities |-> <<>>, queries |-> <<EmptyCursor>>, pages |-> <<>>]

NoListing == [NewListing("none") EXCEPT !.pc = "idle", !.queries = <<>>]

\* one loop iteration from the response on: the page is taken, the cursor
\* moves, the entities are built and pushed, and the loop either issues the
\* next query or ends; a builder that throws ends the call
pageArrives(self, page) ==
    LET taken == [self EXCEPT !.hasNextPage = page.hasNextPage,
                              !.cursor = cursorAfter(@, page.edges),
                              !.pages = Append(@, page)]
    IN IF entityTypeInvalid(self.method, page.edges)
       THEN [taken EXCEPT !.pc = "thrown"]
       ELSE LET pushed == [taken EXCEPT !.allEntities = @ \o builtEntities(page.edges)]
            IN IF pushed.hasNextPage
               THEN [pushed EXCEPT !.queries = Append(@, pushed.cursor)]
               ELSE [pushed EXCEPT !.pc = "returned"]

\* ---------------------------------------------------------------- uploadFile: values

\* uploadChunk calls an uploader of the arweave library needs to complete
MaxUploadCalls == 2

\* the ids of signed transactions
TransactionIdValues == {"tx 1", "tx 2"}
NoTransaction == "no transaction"

\* arweave.transactions.getUploader(transaction): not complete before its
\* first uploadChunk call, complete after `needed` calls that resolve
NewTransactionUploader(needed) == [created |-> TRUE, needed |-> needed, calls |-> 0]
NoTransactionUploader == [created |-> FALSE, needed |-> 0, calls |-> 0]

\* a faulty variant: the loop ends after the first uploadChunk call
uploadLoopEndsEarly(transactionUploader) == transactionUploader.calls >= 1

\* while (!uploader.isComplete): the loop ends
uploadLoopEnds(transactionUploader) == transactionUploader.calls = transactionUploader.needed

\* const fileId = existingFileId ?? EID(uuidv4())
ExistingFileIds == {undefined, "file 1"}
fileIdFor(existingFileId) ==
    IF existingFileId # undefined THEN existingFileId ELSE "generated file id"

\* an uploadFile call that awaits the preparing of its file-data transaction
NewFileUpload(dryRun, existingFileId) ==
    [pc |-> "prepareData", dryRun |-> dryRun, fileId |-> fileIdFor(existingFileId),
     dataTrx |-> NoTransaction, dataUploader |-> NoTransactionUploader,
     metadataTrxData |-> [dataTxId |-> NoTransaction],
     metaDataTrx |-> NoTransaction, metaDataUploader |-> NoTransactionUploader,
     result |-> [dataTrxId |-> NoTransaction, metaDataTrxId |-> NoTransaction,
                 fileId |-> undefined]]

NoFileUpload == [NewFileUpload(FALSE, undefined) EXCEPT !.pc = "idle"]

\* lines 848-859: the file-data transaction is prepared and signed; unless
\* dryRun its uploader is created and its upload loop entered
dataTransactionPrepared(self, id, needed) ==
    IF self.dryRun
    THEN [self EXCEPT !.pc = "prepareMetaData", !.dataTrx = id]
    ELSE [self EXCEPT !.pc = "uploadData", !.dataTrx = id,
                      !.dataUploader = NewTransactionUploader(needed)]

\* lines 856-858: an uploadChunk call of the data uploader resolves
dataChunkUploaded(self) ==
    LET advanced == [self EXCEPT !.dataUploader.calls = @ + 1]
    IN IF uploadLoopEnds(advanced.dataUploader)
       THEN [advanced EXCEPT !.pc = "prepareMetaData"]
       ELSE advanced

\* lines 862-893: the metadata is made with TxID(dataTrx.id) and its
\* transaction prepared and signed; unless dryRun its upload loop is entered,
\* in dryRun the result is returned
metaDataTransactionPrepared(self, id, needed) ==
    LET prepared == [self EXCEPT !.metadataTrxData = [dataTxId |-> self.dataTrx],
                                 !.metaDataTrx = id]
    IN IF self.dryRun
       THEN [prepared EXCEPT !.pc = "returned",
                             !.result = [dataTrxId |-> self.dataTrx, metaDataTrxId |-> id,
                                         fileId |-> self.fileId]]
       ELSE [prepared EXCEPT !.pc = "uploadMetaData",
                             !.metaDataUploader = NewTransactionUploader(needed)]

\* lines 879-893: an uploadChunk call of the metadata uploader resolves
metaDataChunkUploaded(self) ==
    LET advanced == [self EXCEPT !.metaDataUploader.calls = @ + 1]
    IN IF uploadLoopEnds(advanced.metaDataUploader)
       THEN [advanced EXCEPT !.pc = "returned",
                             !.result = [dataTrxId |-> self.dataTrx,
                                         metaDataTrxId |-> self.metaDataTrx,
                                         fileId |-> self.fileId]]
       ELSE advanced

\* an awaited step rejects: uploadFile throws where it stands
uploadFileThrows(self) == [self EXCEPT !.pc = "thrown at " \o self.pc]


DaoIdle == listing = NoListing /\ fileUpload = NoFileUpload

\* ---------------------------------------------------------------- a packing session

\* One packer: it is constructed, then packIntoBundle and
\* canPackDataItemsWithByteCounts are called in any order.
PackerSessionInit == PackerInit /\ FeasIdle /\ PriceIdle /\ UploadIdle /\ HierarchyIdle /\ ContractIdle /\ DaoIdle

SessionConstruct ==
    /\ \E size \in BundleSizes, limit \in LimitInputs : Construct("p1", size, limit)
    /\ UNCHANGED <<feas, priceVars, uploadVars, indexVars>>

SessionPack ==
    /\ \E plan \in DataItemPlans : Pack("p1", plan)
    /\ UNCHANGED <<feas, priceVars, uploadVars, indexVars>>

SessionCanPack ==
    /\ \E byteCounts \in SessionByteCounts : CanPack("p1", byteCounts)
    /\ UNCHANGED <<feas, priceVars, uploadVars, indexVars>>

PackerSessionNext == SessionConstruct \/ SessionPack \/ SessionCanPack

SpecPacker == PackerSessionInit /\ [][PackerSessionNext]_vars

\* ---------------------------------------------------------------- claims on the packer

ReadyPackers == {p \in Packers : packers[p].state = "ready"}

\* the 0-based indices of the bundles of `bs` that have room for `plan`
FittingIndices(bs, plan) ==
    {i \in 0..(Len(bs) - 1) :
        /\ bs[i + 1].maxBundleSize - bs[i + 1].totalSizeOfBundle >= plan.byteCountAsDataItems
        /\ bs[i + 1].maxDataItemLimit - bs[i + 1].totalDataItemsInBundle >= plan.numberOfDataItems}

\* the step is a packIntoBundle call on packer p
IsPackStep(p) == Len(calls'[p]) = Len(calls[p]) + 1

\* C1: after each packIntoBundle call every bundle has totalSize <= maxBundleSize
\* and totalDataItems <= maxDataItemLimit.
C1_CapacityInvariant ==
    \A p \in ReadyPackers :
        \A i \in 1..Len(packers[p].plannedBundles) :
            LET b == packers[p].plannedBundles[i] IN
            /\ b.totalSizeOfBundle <= packers[p].maxBundleSize
            /\ b.totalDataItemsInBundle <= packers[p].maxDataItemLimit

\* C2 (step): packIntoBundle returns the lowest index of a bundle that had room
\* for the plan before the call; if there is none it appends one bundle seeded
\* with the plan and returns the previous number of bundles.
C2_FirstFitStep ==
    \A p \in Packers :
        IsPackStep(p) =>
            LET bs == packers[p].plannedBundles
                bsAfter == packers'[p].plannedBundles
                call == calls'[p][Len(calls'[p])]
                fits == FittingIndices(bs, call.plan)
            IN  IF fits # {}
                THEN /\ call.ret = Min(fits)
                     /\ Len(bsAfter) = Len(bs)
                ELSE /\ call.ret = Len(bs)
                     /\ Len(bsAfter) = Len(bs) + 1
                     /\ bsAfter[Len(bsAfter)].totalSizeOfBundle = call.plan.byteCountAsDataItems
                     /\ bsAfter[Len(bsAfter)].totalDataItemsInBundle = call.plan.numberOfDataItems

\* the plans of the end-to-end scenario: 4000, 3000 and 6000 bytes, one item each
IsScenario(p) ==
    /\ packers[p].state = "ready"
    /\ packers[p].maxBundleSize = 10000
    /\ packers[p].maxDataItemLimit = 5
    /\ Len(calls[p]) = 3
    /\ [k \in 1..3 |-> calls[p][k].plan.byteCountAsDataItems] = <<4000, 3000, 6000>>
    /\ \A k \in 1..3 : calls[p][k].plan.numberOfDataItems = 1

\* C2 (scenario): capacity (10000, 5), plans of 4000, 3000, 6000 bytes give [0, 0, 1].
C2_Scenario ==
    \A p \in Packers :
        IsScenario(p) => [k \in 1..3 |-> calls[p][k].ret] = <<0, 0, 1>>

\* C2: first-fit by ascending index, and the end-to-end scenario.
C2_FirstFit == [][C2_FirstFitStep]_vars /\ []C2_Scenario

C2_Witness ==
    /\ IsScenario("p1")
    /\ Len(packers["p1"].plannedBundles) = 2


\* the sum of the byte counts (data item counts) of the calls that returned index i
RECURSIVE SizeAssigned(_, _)
SizeAssigned(cs, i) ==
    IF cs = <<>> THEN 0
    ELSE (IF Head(cs).ret = i THEN Head(cs).plan.byteCountAsDataItems ELSE 0)
            + SizeAssigned(Tail(cs), i)

RECURSIVE ItemsAssigned(_, _)
ItemsAssigned(cs, i) ==
    IF cs = <<>> THEN 0
    ELSE (IF Head(cs).ret = i THEN Head(cs).plan.numberOfDataItems ELSE 0)
            + ItemsAssigned(Tail(cs), i)

\* the uploadStats references of the calls that returned index i, in call order
RECURSIVE StatsAssigned(_, _)
StatsAssigned(cs, i) ==
    IF cs = <<>> THEN <<>>
    ELSE (IF Head(cs).ret = i /\ Head(cs).plan.uploadStats # undefined
          THEN <<Head(cs).plan.uploadStats>> ELSE <<>>)
            \o StatsAssigned(Tail(cs), i)

IsPrefix(s, t) == Len(s) <= Len(t) /\ SubSeq(t, 1, Len(s)) = s

\* C3 (state): the bundle at every index ever returned still exists and holds
\* exactly the contributions of the plans that were given that index.
C3_IndexHoldsPlans ==
    \A p \in ReadyPackers :
        \A k \in 1..Len(calls[p]) :
            LET i == calls[p][k].ret
                bs == packers[p].plannedBundles
            IN  /\ i >= 0 /\ i < Len(bs)
                /\ bs[i + 1].totalSizeOfBundle = SizeAssigned(calls[p], i)
                /\ bs[i + 1].totalDataItemsInBundle = ItemsAssigned(calls[p], i)
                /\ bs[i + 1].uploadStatsInBundle = StatsAssigned(calls[p], i)

\* C3 (step): no call removes or reorders a bundle, and no bundle's totals decrease.
C3_NeverShrinks ==
    \A p \in Packers :
        packers[p].state = "ready" =>
            /\ packers'[p].state = "ready"
            /\ Len(packers'[p].plannedBundles) >= Len(packers[p].plannedBundles)
            /\ \A i \in 1..Len(packers[p].plannedBundles) :
                LET old == packers[p].plannedBundles[i]
                    new == packers'[p].plannedBundles[i]
                IN  /\ new.totalSizeOfBundle >= old.totalSizeOfBundle
                    /\ new.totalDataItemsInBundle >= old.totalDataItemsInBundle
                    /\ IsPrefix(old.uploadStatsInBundle, new.uploadStatsInBundle)

\* C3: a BundleIndex stays valid: its bundle is never removed, reordered or
\* merged and keeps the plan's contribution.
C3_IndexStability == []C3_IndexHoldsPlans /\ [][C3_NeverShrinks]_vars

C3_Witness ==
    /\ packers["p1"].state = "ready"
    /\ Len(calls["p1"]) = 3
    /\ calls["p1"][1].ret = 0
    /\ calls["p1"][3].ret = 1
    /\ lastOp.op = "canPackDataItemsWithByteCounts"
    /\ Len(packers["p1"].plannedBundles) = 2

\* a limit the constructor must accept: a finite integer >= 2
IsValidLimit(x) == x.kind = "finite" /\ \E n \in 2..x.num : x.num = n * x.den

\* C5: construction fails, producing no packer, exactly when maxDataItemLimit is
\* not finite, not an integer or less than 2.
C5_ConstructionValidation ==
    /\ lastOp.op = "constructor" =>
          LET x == lastOp.maxDataItemLimit
              made == packers[lastOp.packer]
          IN  IF IsValidLimit(x)
              THEN /\ made.state = "ready"
                   /\ x.num = made.maxDataItemLimit * x.den
                   /\ made.plannedBundles = <<>>
              ELSE made.state = "threw"
    /\ \A p \in Packers : packers[p].state # "ready" => calls[p] = <<>>

C5_Witness ==
    /\ lastOp.op = "constructor"
    /\ lastOp.maxDataItemLimit = Finite(1, 1)
    /\ packers["p1"].state = "threw"

\* C7: canPackDataItemsWithByteCounts leaves the bundle sequence and every
\* bundle's totals and listing unchanged.
C7_CanPackIsPure ==
    [][lastOp'.op = "canPackDataItemsWithByteCounts" => packers' = packers]_vars

C7_Witness ==
    /\ lastOp.op = "canPackDataItemsWithByteCounts"
    /\ lastOp.ret.kind = "return"
    /\ Len(packers["p1"].plannedBundles) = 2
    /\ packers["p1"].plannedBundles[1].uploadStatsInBundle # <<>>

\* C8 (step): the bundle a plan goes to gains the plan's byte count and
\* data-item count; its listing gains the plan's uploadStats once if the plan
\* has one and is unchanged if it has none.
C8_AddStep ==
    \A p \in Packers :
        IsPackStep(p) =>
            LET call == calls'[p][Len(calls'[p])]
                i == call.ret + 1
                bs == packers[p].plannedBundles
                oldSize == IF i <= Len(bs) THEN bs[i].totalSizeOfBundle ELSE 0
                oldItems == IF i <= Len(bs) THEN bs[i].totalDataItemsInBundle ELSE 0
                oldStats == IF i <= Len(bs) THEN bs[i].uploadStatsInBundle ELSE <<>>
                new == packers'[p].plannedBundles[i]
            IN  /\ new.totalSizeOfBundle = oldSize + call.plan.byteCountAsDataItems
                /\ new.totalDataItemsInBundle = oldItems + call.plan.numberOfDataItems
                /\ new.uploadStatsInBundle =
                      IF call.plan.uploadStats = undefined
                      THEN oldStats
                      ELSE Append(oldStats, call.plan.uploadStats)

\* C8: a plan without uploadStats counts against capacity but is not listed.
C8_BareMetadata == [][C8_AddStep]_vars

C8_Witness ==
    /\ lastOp.op = "packIntoBundle"
    /\ Len(calls["p1"]) = 2
    /\ calls["p1"][1].plan.uploadStats # undefined
    /\ calls["p1"][2].plan.uploadStats = undefined
    /\ calls["p1"][2].ret = 0
    /\ packers["p1"].plannedBundles[1].totalDataItemsInBundle >= 2
    /\ Len(packers["p1"].plannedBundles[1].uploadStatsInBundle) = 1

\* ---------------------------------------------------------------- two packers of one capacity

\* the first packer of the pair
PairConstruct ==
    /\ \E size \in BundleSizes, limit \in LimitInputs : Construct("p1", size, limit)
    /\ UNCHANGED <<feas, priceVars, uploadVars, indexVars>>

\* a fresh packer with the capacity of the first
PairConstructFresh ==
    /\ packers["p1"].state = "ready"
    /\ Construct("p2", packers["p1"].maxBundleSize, Finite(packers["p1"].maxDataItemLimit, 1))
    /\ UNCHANGED <<feas, priceVars, uploadVars, indexVars>>

\* ---------------------------------------------------------------- feasibility against a fresh pack

FeasInit ==
    /\ PackerInit
    /\ PriceIdle
    /\ UploadIdle /\ HierarchyIdle /\ ContractIdle /\ DaoIdle
    /\ \E byteCounts \in SeqsUpTo(PlanByteCounts, MaxByteCounts) :
          feas = [byteCounts |-> byteCounts, answer |-> [kind |-> "none"]]

\* the feasibility question is put to the first packer
FeasCanPack ==
    /\ feas.answer.kind = "none"
    /\ CanPack("p1", feas.byteCounts)
    /\ feas' = [feas EXCEPT !.answer = lastOp'.ret]
    /\ UNCHANGED <<priceVars, uploadVars, indexVars>>

\* the next byte count is packed, as one data item, into the fresh packer
FeasPack ==
    /\ Len(calls["p2"]) < Len(feas.byteCounts)
    /\ \E stats \in UploadStatsRefs :
          Pack("p2", [uploadStats |-> stats,
                      byteCountAsDataItems |-> feas.byteCounts[Len(calls["p2"]) + 1],
                      numberOfDataItems |-> 1])
    /\ UNCHANGED <<feas, priceVars, uploadVars, indexVars>>

FeasNext == PairConstruct \/ PairConstructFresh \/ FeasCanPack \/ FeasPack

SpecFeasibility == FeasInit /\ [][FeasNext]_vars

\* C4: if canPackDataItemsWithByteCounts(sizes) returns true, packing those
\* sizes in order (one item each) into a fresh packer of the same capacity
\* returns index 0 every time and leaves one bundle; if it returns false the
\* sum exceeds maxBundleSize or the count exceeds maxDataItemLimit.
C4_FeasibilityConsistency ==
    feas.answer.kind = "return" =>
        IF feas.answer.value
        THEN packers["p2"].state = "ready" =>
                /\ \A k \in 1..Len(calls["p2"]) : calls["p2"][k].ret = 0
                /\ Len(packers["p2"].plannedBundles) = (IF calls["p2"] = <<>> THEN 0 ELSE 1)
        ELSE \/ SumSeq(feas.byteCounts) > packers["p1"].maxBundleSize
             \/ Len(feas.byteCounts) > packers["p1"].maxDataItemLimit

C4_Witness ==
    /\ feas.answer.kind = "return"
    /\ feas.answer.value
    /\ Len(feas.byteCounts) = 3
    /\ Len(calls["p2"]) = 3
    /\ Len(packers["p2"].plannedBundles) = 1

\* ---------------------------------------------------------------- the same plans, twice

DetInit == PackerInit /\ FeasIdle /\ PriceIdle /\ UploadIdle /\ HierarchyIdle /\ ContractIdle /\ DaoIdle

\* a plan is packed into the first packer
DetPack ==
    /\ \E plan \in DataItemPlans : Pack("p1", plan)
    /\ UNCHANGED <<feas, priceVars, uploadVars, indexVars>>

\* the second packer is given the next plan of the first packer's sequence
DetReplay ==
    /\ Len(calls["p2"]) < Len(calls["p1"])
    /\ Pack("p2", calls["p1"][Len(calls["p2"]) + 1].plan)
    /\ UNCHANGED <<feas, priceVars, uploadVars, indexVars>>

DetNext == PairConstruct \/ PairConstructFresh \/ DetPack \/ DetReplay

SpecDeterminism == DetInit /\ [][DetNext]_vars

PriceInit == PackerInit /\ FeasIdle /\ PriceIdle /\ UploadIdle /\ HierarchyIdle /\ ContractIdle /\ DaoIdle

PriceLookup ==
    /\ \E c \in Callers, byteCount \in LookupByteCounts : Lookup(c, byteCount)
    /\ UNCHANGED <<packerVars, inverse, uploadVars, indexVars>>

\* a lookup that starts only after every earlier lookup has returned or thrown
PriceLookupInTurn ==
    /\ InFlight = {}
    /\ \E c \in Callers, byteCount \in LookupByteCounts : Lookup(c, byteCount)
    /\ UNCHANGED <<packerVars, inverse, uploadVars, indexVars>>

PriceOracleReply ==
    /\ \E c \in Callers, winstonPrice \in OraclePrices : OracleReply(c, winstonPrice)
    /\ UNCHANGED <<packerVars, inverse, uploadVars, indexVars>>

PriceOracleFail ==
    /\ \E c \in Callers : OracleFail(c)
    /\ UNCHANGED <<packerVars, inverse, uploadVars, indexVars>>

\* callers whose lookups may overlap
SpecPrice == PriceInit /\ [][PriceLookup \/ PriceOracleReply \/ PriceOracleFail]_vars

\* callers that look prices up one after the other
SpecPriceSequential ==
    PriceInit /\ [][PriceLookupInTurn \/ PriceOracleReply \/ PriceOracleFail]_vars

\* ---------------------------------------------------------------- claims on the price estimator

\* ceiling(byteCount / 262144)
ChunkCountOf(byteCount) ==
    CHOOSE n \in 0..4 : n * 262144 >= byteCount /\ (n = 0 \/ (n - 1) * 262144 < byteCount)

\* C9: lookups of one uncached chunk count that are in flight together share a
\* single oracle query.
C9_Coalescing ==
    \A c1, c2 \in InFlight :
        ChunkCountOf(lookups[c1].byteCount) = ChunkCountOf(lookups[c2].byteCount)
            => lookups[c1].query = lookups[c2].query

\* the lookups before the j-th that returned an amount for the same chunk count
EarlierHits(j) ==
    {i \in 1..(j - 1) :
        /\ lookupLog[i].outcome.kind = "return"
        /\ ChunkCountOf(lookupLog[i].byteCount) = ChunkCountOf(lookupLog[j].byteCount)}

\* C10: looked up one after the other, byte counts of one chunk count cost one
\* oracle query, made with the first byte count as given, and the later
\* lookups return the amount of the first; another chunk count is another key.
C10_ChunkCountCache ==
    /\ \A j \in 1..Len(lookupLog) :
          IF EarlierHits(j) # {}
          THEN /\ lookupLog[j].query = 0
               /\ lookupLog[j].outcome = lookupLog[Min(EarlierHits(j))].outcome
          ELSE /\ lookupLog[j].query \in 1..Len(oracleLog)
               /\ oracleLog[lookupLog[j].query].byteCount = lookupLog[j].byteCount
    /\ \A q \in 1..Len(oracleLog) :
          Cardinality({j \in 1..Len(lookupLog) : lookupLog[j].query = q}
                        \cup {c \in InFlight : lookups[c].query = q}) = 1
    /\ DOMAIN cachedPricePerChunk =
          {ToString(ChunkCountOf(lookupLog[j].byteCount)) :
              j \in {i \in 1..Len(lookupLog) : lookupLog[i].outcome.kind = "return"}}

C10_Witness ==
    /\ Len(lookupLog) = 3
    /\ lookupLog[1].byteCount = 1 /\ lookupLog[1].outcome = Returns(7)
    /\ lookupLog[2].byteCount = 262144 /\ lookupLog[2].outcome = Returns(7)
    /\ lookupLog[2].query = 0
    /\ lookupLog[3].byteCount = 0 /\ lookupLog[3].query = 2
    /\ Len(oracleLog) = 2


\* C11: once an amount is cached for a chunk-count key, no later step replaces
\* or removes it.
C11_EntriesNeverChange ==
    [][\A k \in DOMAIN cachedPricePerChunk :
          /\ k \in DOMAIN cachedPricePerChunk'
          /\ cachedPricePerChunk'[k] = cachedPricePerChunk[k]]_vars

\* the step ends a lookup with a thrown error
IsFailedLookupStep ==
    /\ Len(lookupLog') = Len(lookupLog) + 1
    /\ lookupLog'[Len(lookupLog')].outcome.kind = "throw"

\* the step starts an oracle query
IsQueryStep == Len(oracleLog') = Len(oracleLog) + 1

\* C12 (state): a failed oracle query ends the lookup with the error, and the
\* next lookup of that chunk count (none having succeeded since) issues a query
\* of its own.
C12_FailureIsNotCached ==
    \A j \in 1..Len(lookupLog) :
        /\ lookupLog[j].outcome.kind = "throw" => lookupLog[j].query \in 1..Len(oracleLog)
        /\ \A i \in 1..(j - 1) :
              (/\ lookupLog[i].outcome.kind = "throw"
               /\ ChunkCountOf(lookupLog[i].byteCount) = ChunkCountOf(lookupLog[j].byteCount)
               /\ EarlierHits(j) = {})
                  => /\ lookupLog[j].query \in 1..Len(oracleLog)
                     /\ lookupLog[j].query # lookupLog[i].query

\* C12: an oracle failure propagates to the caller and leaves the cache as it
\* was before the call, so a later lookup of the key queries the oracle again.
C12_OracleFailure ==
    /\ []C12_FailureIsNotCached
    /\ [][(IsFailedLookupStep \/ IsQueryStep)
            => cachedPricePerChunk' = cachedPricePerChunk]_vars

C12_Witness ==
    /\ Len(lookupLog) = 2
    /\ lookupLog[1].byteCount = 1 /\ lookupLog[1].outcome.kind = "throw"
    /\ lookupLog[2].byteCount = 262144 /\ lookupLog[2].outcome = Returns(5)
    /\ lookupLog[2].query = 2
    /\ DOMAIN cachedPricePerChunk = {"1"}


\* ---------------------------------------------------------------- the inverse estimate

InverseNext ==
    \/ InverseCall \/ InverseBasePrice \/ InverseOneChunkPrice
    \/ PriceOracleReply \/ PriceOracleFail

SpecInverse == PriceInit /\ [][InverseNext]_vars

\* C13: getByteCountForWinston(amount) returns 0 when amount < price(1) and a
\* non-negative multiple of 262144 otherwise, whatever the two oracle prices.
C13_InverseBoundary ==
    (inverse.pc = "done" /\ inverse.priced) =>
        IF inverse.winston < inverse.one
        THEN inverse.result = Returns(0)
        ELSE /\ inverse.result.kind = "return"
             /\ inverse.result.value >= 0
             /\ inverse.result.value % 262144 = 0

\* C14: for amount >= price(1) the result is
\* floor((amount - price(0)) / (price(1) - price(0))) * 262144.
C14_InverseFormula ==
    (inverse.pc = "done" /\ inverse.priced /\ inverse.winston >= inverse.one) =>
        /\ inverse.result.kind = "return"
        /\ inverse.one > inverse.base =>
              inverse.result.value =
                  ((inverse.winston - inverse.base) \div (inverse.one - inverse.base)) * 262144

\* ---------------------------------------------------------------- an upload

UploadInit ==
    /\ PackerInit /\ FeasIdle /\ PriceIdle /\ HierarchyIdle /\ ContractIdle /\ DaoIdle
    /\ \E totalChunks \in TotalChunksValues, maxConcurrentChunks \in ConcurrencyValues :
          uploader = NewUploader(totalChunks, maxConcurrentChunks)
    /\ batch = IdleBatch
    /\ workers = [w \in Workers |-> IdleWorker]
    /\ net = NoTraffic

UploadCall ==
    /\ uploader.totalErrors < MaxAttempts
    /\ net.txPosts < MaxAttempts
    /\ BatchUploadChunks
    /\ UNCHANGED <<packerVars, priceVars, indexVars>>

UploadHeaderSettles ==
    /\ \E resp \in RequestOutcomes : HeaderSettles(resp)
    /\ UNCHANGED <<packerVars, priceVars, indexVars>>

UploadHeaderDelayElapses ==
    /\ HeaderDelayElapses
    /\ UNCHANGED <<packerVars, priceVars, indexVars>>

UploadChunkSettles ==
    /\ \E w \in Workers, resp \in RequestOutcomes : ChunkSettles(w, resp)
    /\ UNCHANGED <<packerVars, priceVars, indexVars>>

UploadChunkDelayElapses ==
    /\ \E w \in Workers : ChunkDelayElapses(w)
    /\ UNCHANGED <<packerVars, priceVars, indexVars>>

UploadNext ==
    \/ UploadCall \/ UploadHeaderSettles \/ UploadHeaderDelayElapses
    \/ UploadChunkSettles \/ UploadChunkDelayElapses

SpecUpload == UploadInit /\ [][UploadNext]_vars

\* the offsets whose chunk travels in the body of the header request
InlineOffsets(self) ==
    IF self.totalChunks <= MAX_CHUNKS_IN_BODY THEN 0..(MAX_CHUNKS_IN_BODY - 1) ELSE {}

\* the offsets the workers have to upload
WorkerOffsets(self) == (0..(self.totalChunks - 1)) \ InlineOffsets(self)

RECURSIVE SumCounted(_)
SumCounted(offsets) ==
    IF offsets = {} THEN 0
    ELSE LET o == Min(offsets) IN net.chunks[o].counted + SumCounted(offsets \ {o})

\* no offset is claimed, posted or counted twice, none outside the workers' range
C15_AtMostOnce ==
    /\ \A o \in 0..LastOffset :
          /\ net.chunks[o].claims <= 1
          /\ net.chunks[o].posts = net.chunks[o].claims
          /\ net.chunks[o].counted <= net.chunks[o].claims
          /\ o \notin WorkerOffsets(uploader) => net.chunks[o].claims = 0
    /\ uploader.uploadedChunks =
          SumCounted(0..LastOffset)
              + (IF uploader.txPosted /\ InlineOffsets(uploader) # {} THEN MAX_CHUNKS_IN_BODY ELSE 0)

\* a chunk is posted in the step in which a worker claims it, by that worker,
\* and counted by the worker that holds it
C15_ByTheClaimant ==
    \A o \in 0..LastOffset :
        /\ net'.chunks[o].posts > net.chunks[o].posts =>
              /\ net'.chunks[o].claims = net.chunks[o].claims + 1
              /\ uploader.chunkOffset <= o /\ o < uploader'.chunkOffset
              /\ Cardinality({w \in Workers :
                     /\ workers'[w].pc = "request" /\ workers'[w].chunk = o
                     /\ workers'[w] # workers[w]}) = 1
        /\ net'.chunks[o].counted > net.chunks[o].counted =>
              \E w \in Workers :
                  /\ workers[w].pc \in {"request", "delay"} /\ workers[w].chunk = o
                  /\ workers'[w] # workers[w]

\* when the call has returned and every request succeeded no offset was skipped
C15_NoneSkipped ==
    (batch.pc = "returned" /\ net.failed = 0) =>
        \A o \in WorkerOffsets(uploader) :
            net.chunks[o].claims = 1 /\ net.chunks[o].counted = 1

\* C15: every chunk offset the header body does not cover is claimed by exactly
\* one worker and posted by that worker only; no offset is claimed or counted
\* twice, and none is skipped when every request succeeds.
C15_ExactlyOnceClaiming ==
    /\ [](C15_AtMostOnce /\ C15_NoneSkipped)
    /\ [][C15_ByTheClaimant]_vars

\* three chunks uploaded by two concurrent workers, every request accepted
C15_Witness ==
    /\ uploader.totalChunks = 3 /\ uploader.maxConcurrentChunks = 2
    /\ batch.pc = "returned" /\ net.failed = 0
    /\ \A o \in 0..2 : net.chunks[o].claims = 1 /\ net.chunks[o].counted = 1
    /\ uploader.uploadedChunks = 3

\* C16: if isComplete is true the header POST received a success response and
\* every chunk was carried in the header body or had its POST /chunk accepted
\* with a success response; uploadedChunks advances only for such a chunk.
C16_CompletionSoundness ==
    /\ isComplete(uploader) =>
          /\ net.txAccepted
          /\ \A o \in WorkerOffsets(uploader) : net.chunks[o].accepted
    /\ \A o \in 0..LastOffset : net.chunks[o].counted > 0 => net.chunks[o].accepted
    /\ uploader.uploadedChunks > SumCounted(0..LastOffset) => net.txAccepted

\* the step is the start of a batchUploadChunks call
IsBatchCallStep == batch.pc \in {"idle", "returned", "thrown"} /\ batch'.pc # batch.pc

\* the step receives a fatal response to a POST /chunk
IsFatalChunkStep ==
    \E w \in Workers :
        /\ workers[w].pc = "request" /\ workers'[w].pc = "thrown"
        /\ ~net.chunkFatal /\ net'.chunkFatal

RECURSIVE SumPosts(_, _)
SumPosts(traffic, offsets) ==
    IF offsets = {} THEN 0
    ELSE LET o == Min(offsets) IN traffic.chunks[o].posts + SumPosts(traffic, offsets \ {o})

\* C17: on a fatal chunk response the upload aborts after that single attempt:
\* the error counter is not incremented, no retry wait happens, and no further
\* POST /chunk is issued by any worker after the fatal response.
C17_FatalStep ==
    /\ IsFatalChunkStep =>
          /\ uploader'.totalErrors = uploader.totalErrors
          /\ net'.waits = net.waits
          /\ batch.pc = "workers" => batch'.pc = "thrown"
    /\ (net.chunkFatal /\ ~IsBatchCallStep) =>
          SumPosts(net', 0..LastOffset) = SumPosts(net, 0..LastOffset)

C17_FatalShortCircuit == [][C17_FatalStep]_vars

\* the step is the failure of the header posting of the call
IsHeaderFailureStep == batch.pc \in {"header", "headerDelay"} /\ batch'.pc = "thrown"

\* no chunk has been posted unless a POST /tx was answered with a success
C18_ChunksAfterAcceptedHeader ==
    SumPosts(net, 0..LastOffset) > 0 => net.txAccepted

\* C18: no POST /chunk is issued before the POST /tx header request has
\* completed successfully, and if header posting fails no chunk worker is
\* started and no chunk is posted in that call.
C18_HeaderBeforeChunks ==
    /\ []C18_ChunksAfterAcceptedHeader
    /\ [][IsHeaderFailureStep =>
            /\ workers' = workers
            /\ SumPosts(net', 0..LastOffset) = SumPosts(net, 0..LastOffset)]_vars

\* the retry delay of the header request ends in this step
IsHeaderRetryStep == batch.pc = "headerDelay" /\ batch'.pc # "headerDelay"

\* the retry delay of the chunk request of the worker in slot w ends in this step
IsChunkRetryStep(w) == workers[w].pc = "delay" /\ workers'[w] # workers[w]

\* C19: after a retryable failure below the error maximum the uploader waits
\* and then sends the same request one more time: the endpoint observes a
\* second POST for that header or chunk, and never a third.
C19_RetryStep ==
    /\ IsHeaderRetryStep => net'.txPosts = net.txPosts + 1
    /\ \A w \in Workers :
          IsChunkRetryStep(w) =>
              /\ net'.chunks[workers[w].chunk].posts = net.chunks[workers[w].chunk].posts + 1
              /\ net'.chunks[workers[w].chunk].posts <= 2

C19_RetryResends == [][C19_RetryStep]_vars

\* ---------------------------------------------------------------- an upload in which every request fails

\* the caller calls batchUploadChunks again until the error budget is spent
ExhaustCall ==
    /\ uploader.totalErrors < MAX_ERRORS
    /\ BatchUploadChunks
    /\ UNCHANGED <<packerVars, priceVars, indexVars>>

ExhaustHeaderSettles ==
    /\ \E resp \in RetryableOutcomes : HeaderSettles(resp)
    /\ UNCHANGED <<packerVars, priceVars, indexVars>>

ExhaustChunkSettles ==
    /\ \E w \in Workers, resp \in RetryableOutcomes : ChunkSettles(w, resp)
    /\ UNCHANGED <<packerVars, priceVars, indexVars>>

ExhaustNext ==
    \/ ExhaustCall \/ ExhaustHeaderSettles \/ UploadHeaderDelayElapses
    \/ ExhaustChunkSettles \/ UploadChunkDelayElapses

SpecExhaust == UploadInit /\ [][ExhaustNext]_vars

\* one error is counted per failed request, and one wait made per error
\* counted below the maximum
C20_BudgetCounts ==
    /\ uploader.totalErrors = net.failed
    /\ net.waits < MAX_ERRORS
    /\ net.waits = IF uploader.totalErrors < MAX_ERRORS
                   THEN uploader.totalErrors ELSE MAX_ERRORS - 1

\* the request on which the counter reaches the maximum aborts its call
C20_AbortStep ==
    (uploader'.totalErrors # uploader.totalErrors /\ uploader'.totalErrors >= MAX_ERRORS) =>
        /\ net'.waits = net.waits
        /\ batch.pc = "header" => batch'.pc = "thrown"
        /\ \A w \in Workers :
              workers'[w] # workers[w] =>
                  /\ workers'[w].pc = "thrown"
                  /\ (workers[w].own /\ batch.pc = "workers") => batch'.pc = "thrown"

\* C20: with a retryable error on every request, totalErrors is incremented
\* once per failed request, fewer than MAX_ERRORS retry waits are made, and
\* the uploader aborts no later than the request on which the counter reaches
\* MAX_ERRORS.
C20_RetryBudgetExhaustion == []C20_BudgetCounts /\ [][C20_AbortStep]_vars

\* the hundredth failed request has aborted the call after 99 waits
C20_Witness ==
    /\ uploader.totalErrors = MAX_ERRORS
    /\ net.waits = MAX_ERRORS - 1
    /\ batch.pc = "thrown"

\* C21: a successful upload of a payload of at most one chunk is a single
\* POST /tx that carries the data, with no POST /chunk, the chunk being marked
\* uploaded only after the header POST succeeded; for more than one chunk the
\* header is posted with an empty body and every chunk is posted individually
\* afterwards.
C21_InlineBody ==
    /\ net.txPosts > 0 =>
          net.txBody = (IF uploader.totalChunks <= 1 THEN "data" ELSE "empty")
    /\ net.failed = 0 =>
          /\ uploader.totalChunks <= 1 =>
                /\ SumPosts(net, 0..LastOffset) = 0
                /\ uploader.uploadedChunks > 0 => net.txAccepted
          /\ (uploader.totalChunks > 1 /\ batch.pc = "returned") =>
                /\ net.txPosts = 1 /\ net.txAccepted
                /\ \A o \in 0..(uploader.totalChunks - 1) :
                      net.chunks[o].posts = 1 /\ net.chunks[o].accepted
          /\ isComplete(uploader) => net.txPosts = 1

\* a one-chunk payload has been completed by its header request alone
C21_Witness ==
    /\ net.failed = 0 /\ isComplete(uploader) /\ batch.pc = "returned"
    /\ uploader.totalChunks = 1 /\ uploader.uploadedChunks = 1
    /\ net.txPosts = 1 /\ net.txBody = "data" /\ net.txAccepted
    /\ SumPosts(net, 0..LastOffset) = 0

\* C22: for every payload the constructor accepts (any totalChunks, 0 and 1
\* included) and any maxConcurrentChunks >= 1, if every request succeeds
\* batchUploadChunks terminates and isComplete is true afterwards.
C22_ReachesComplete ==
    (batch.pc = "returned" /\ net.failed = 0) => isComplete(uploader)

\* ---------------------------------------------------------------- construction, then an upload

ConstructInit ==
    /\ PackerInit /\ FeasIdle /\ PriceIdle /\ HierarchyIdle /\ ContractIdle /\ DaoIdle
    /\ \E transaction \in Transactions, maxConcurrentChunks \in ConcurrencyValues :
          uploader = NewExpression(transaction, maxConcurrentChunks)
    /\ batch = IdleBatch
    /\ workers = [w \in Workers |-> IdleWorker]
    /\ net = NoTraffic

\* the constructor runs: the uploader object, or the error thrown
ConstructUploader ==
    /\ "transaction" \in DOMAIN uploader
    /\ LET outcome == constructUploader(uploader.transaction, uploader.maxConcurrentChunks)
       IN uploader' = IF outcome.kind = "return" THEN outcome.value ELSE outcome
    /\ UNCHANGED <<batch, workers, net, packerVars, priceVars, indexVars>>

ConstructedCall == IsUploader(uploader) /\ UploadCall

ConstructNext ==
    \/ ConstructUploader \/ ConstructedCall \/ UploadHeaderSettles \/ UploadHeaderDelayElapses
    \/ UploadChunkSettles \/ UploadChunkDelayElapses

SpecConstruct == ConstructInit /\ [][ConstructNext]_vars

\* the constructor is running in this step
IsConstructStep == "transaction" \in DOMAIN uploader /\ uploader' # uploader

\* C23: constructing an uploader with a transaction that has no id or no
\* prepared chunks fails at once, before any request is sent; a signed,
\* chunked transaction is accepted with chunkOffset = 0, uploadedChunks = 0,
\* totalErrors = 0 and the header not posted.
C23_ConstructStep ==
    IsConstructStep =>
        /\ net' = NoTraffic /\ net = NoTraffic
        /\ IF uploader.transaction.id \in {undefined, ""}
              \/ uploader.transaction.chunks = NoChunks
           THEN ~IsUploader(uploader') /\ uploader'.kind = "throw"
           ELSE /\ IsUploader(uploader')
                /\ uploader'.chunkOffset = 0 /\ uploader'.uploadedChunks = 0
                /\ uploader'.totalErrors = 0 /\ ~uploader'.txPosted
                /\ uploader'.totalChunks = uploader.transaction.chunks.length
                /\ uploader'.maxConcurrentChunks = uploader.maxConcurrentChunks

C23_ConstructionPreconditions ==
    /\ [][C23_ConstructStep]_vars
    /\ [](~IsUploader(uploader) => net = NoTraffic /\ batch = IdleBatch)

\* the construction with an unsigned transaction has thrown
C23_Witness == uploader = Throws("Transaction is not signed") /\ net = NoTraffic

\* the worker in slot w aborts on a fatal response in this step
IsFatalAbortOf(w) ==
    /\ workers[w].pc = "request" /\ workers'[w].pc = "thrown"
    /\ uploader'.totalErrors = uploader.totalErrors

\* C24: when an upload aborts on a chunk, the error reported names the offset
\* of the chunk whose request failed: the offset claimed for that request,
\* under any interleaving of the workers.
C24_AbortReporting ==
    [][\A w \in Workers : IsFatalAbortOf(w) => fatalErrorChunk(uploader) = workers[w].chunk]_vars

\* the POST /chunk requests that have been sent and not answered
ChunkRequestsInFlight == {w \in Workers : workers[w].pc = "request"}

\* the call starts its workers in this step
IsWorkerStartStep == batch.pc # "workers" /\ batch'.pc = "workers"

\* C25: batchUploadChunks starts min(totalChunks - chunkOffset,
\* maxConcurrentChunks) chunk workers, and at every moment at most
\* maxConcurrentChunks POST /chunk requests are in flight.
C25_BoundedConcurrency ==
    /\ [](Cardinality(ChunkRequestsInFlight) <= uploader.maxConcurrentChunks)
    /\ [][IsWorkerStartStep =>
            Cardinality({w \in Workers : workers'[w].own}) =
                Min({uploader.totalChunks - uploader.chunkOffset,
                     uploader.maxConcurrentChunks})]_vars

\* C30: after the retry of a retryable header or chunk request the uploader
\* proceeds to the next step (the header is marked posted, the next chunk is
\* claimed) whether the retried attempt succeeded or failed: a failed second
\* attempt does not abort the upload.
C30_RetryStep ==
    /\ IsHeaderRetryStep => (batch'.pc # "thrown" /\ uploader'.txPosted)
    /\ \A w \in Workers :
          IsChunkRetryStep(w) =>
              /\ workers'[w].pc # "thrown"
              /\ uploader'.uploadedChunks = uploader.uploadedChunks + 1

C30_RetryMovesOn == [][C30_RetryStep]_vars

\* ---------------------------------------------------------------- subtree queries on a folder hierarchy

\* the flat collections of folder entities: any order, any parent links
\* (cycles and missing parents included), revisions of one folder included
RECURSIVE EntityLists(_)
EntityLists(n) ==
    IF n = 0 THEN {<<>>}
    ELSE LET shorter == EntityLists(n - 1)
         IN shorter \cup {Append(l, e) : l \in {s \in shorter : Len(s) = n - 1},
                                         e \in FolderEntities}

\* the depths asked for: 0 to one more than any chain of folders
QueryDepths == 0..(Cardinality(FolderIds) + 1)

HierarchyInit ==
    /\ PackerInit /\ FeasIdle /\ PriceIdle /\ UploadIdle /\ ContractIdle /\ DaoIdle
    /\ \E entities \in EntityLists(MaxEntities) : hier = [entities |-> entities, query |-> NoQuery]

\* hierarchy.folderIdSubtreeFromFolderId(folderId, maxDepth) on the hierarchy of the collection
SubtreeQuery ==
    /\ \E folderId \in {e.entityId : e \in Range(hier.entities)}, maxDepth \in QueryDepths :
          hier' = [hier EXCEPT !.query =
                      [op |-> "folderIdSubtreeFromFolderId", folderId |-> folderId,
                       maxDepth |-> maxDepth,
                       ids |-> folderIdSubtreeFromFolderId(newFromEntities(hier.entities),
                                                           folderId, maxDepth)]]
    /\ UNCHANGED <<packerVars, priceVars, uploadVars, contract, daoVars>>

\* getChildrenFolderIds(folderId, allFolderEntitiesOfDrive)
ChildrenQuery ==
    /\ \E folderId \in {e.entityId : e \in Range(hier.entities)} :
          hier' = [hier EXCEPT !.query =
                      [op |-> "getChildrenFolderIds", folderId |-> folderId,
                       maxDepth |-> MAX_SAFE_INTEGER,
                       ids |-> getChildrenFolderIds(folderId, hier.entities)]]
    /\ UNCHANGED <<packerVars, priceVars, uploadVars, contract, daoVars>>

SpecHierarchy == HierarchyInit /\ [][SubtreeQuery \/ ChildrenQuery]_vars

\* the folder that the retained revision of folder id names as its parent
parentOf(entities, id) == latestRevision(entities, id).parentFolderId

\* the folders at most k parent -> child edges below folder root
RECURSIVE withinEdges(_, _, _)
withinEdges(entities, root, k) ==
    IF k = 0 THEN {root}
    ELSE LET nearer == withinEdges(entities, root, k - 1)
         IN nearer \cup {e.entityId : e \in {f \in Range(entities) :
                                               parentOf(entities, f.entityId) \in nearer}}

\* no chain of distinct folders is longer than the number of folders
descendantsOf(entities, root) == withinEdges(entities, root, Cardinality(FolderIds))

HasCycle(entities) ==
    \E id \in {e.entityId : e \in Range(entities)} :
        id \in {parentOf(entities, d) : d \in descendantsOf(entities, id)}

\* C27: on every finite flat collection of folder records, cyclic ones
\* included, the subtree query returns, and returns each folder id at most once
C27_EachIdOnce ==
    LET ids == hier.query.ids
    IN \A i, j \in 1..Len(ids) : ids[i] = ids[j] => i = j

\* an unbounded query has returned all three folders of the cycle a -> b -> c -> a
C27_Witness ==
    /\ hier.query.op = "getChildrenFolderIds"
    /\ HasCycle(hier.entities)
    /\ Len(hier.query.ids) = 3

\* ---------------------------------------------------------------- calls on a community contract oracle

ContractInit ==
    /\ PackerInit /\ FeasIdle /\ PriceIdle /\ UploadIdle /\ HierarchyIdle /\ DaoIdle
    /\ \E skipSetup \in BOOLEAN : contract = NewContractState(skipSetup)

\* the getCommunityContract calls made so far
contractCalls == Len(contract.awaiting) + Len(contract.returned)

\* the calls that resume, in the order they were made, when the read resolves
RECURSIVE resumed(_, _)
resumed(awaiting, communityContract) ==
    IF awaiting = <<>> THEN <<>>
    ELSE <<[caller |-> Head(awaiting).caller, how |-> Head(awaiting).how,
            contract |-> communityContract]>>
         \o resumed(Tail(awaiting), communityContract)

\* a caller that is not awaiting a call calls getCommunityContract(): the
\* cached contract is returned at once, otherwise the call awaits the read
GetCommunityContract(caller) ==
    /\ contractCalls < MaxContractCalls
    /\ \A i \in 1..Len(contract.awaiting) : contract.awaiting[i].caller # caller
    /\ LET call == getCommunityContract(contract.self)
       IN contract' =
             IF call.how = "cached"
             THEN [contract EXCEPT !.self = call.self,
                                   !.returned = Append(@, [caller |-> caller, how |-> "cached",
                                                           contract |-> call.self.communityContract])]
             ELSE [contract EXCEPT !.self = call.self,
                                   !.awaiting = Append(@, [caller |-> caller, how |-> call.how])]
    /\ UNCHANGED <<packerVars, priceVars, uploadVars, hier, daoVars>>

\* the pending contract read resolves: every awaiting call stores the
\* contract, drops the promise and returns the contract
ReadResolves(communityContract) ==
    /\ contract.self.contractPromise
    /\ contract' = [contract EXCEPT !.self.communityContract = communityContract,
                                    !.self.contractPromise = FALSE,
                                    !.awaiting = <<>>,
                                    !.returned = @ \o resumed(contract.awaiting, communityContract)]
    /\ UNCHANGED <<packerVars, priceVars, uploadVars, hier, daoVars>>

ContractCall == \E caller \in ContractCallers : GetCommunityContract(caller)

ContractReadResolves == \E communityContract \in CommunityContracts : ReadResolves(communityContract)

SpecContract == ContractInit /\ [][ContractCall \/ ContractReadResolves]_vars

\* a call made when the contract is cached
IsCachedCallStep ==
    /\ contract.self.communityContract # NoContract
    /\ Len(contract'.awaiting) + Len(contract'.returned) = contractCalls + 1

\* a call made while a contract read is pending
IsPendingCallStep ==
    /\ contract.self.contractPromise
    /\ Len(contract'.awaiting) = Len(contract.awaiting) + 1

C28_CachedCallStep ==
    IsCachedCallStep =>
        /\ contract'.self.readContractCalls = contract.self.readContractCalls
        /\ contract'.awaiting = contract.awaiting
        /\ contract'.returned[Len(contract'.returned)].contract = contract.self.communityContract

\* C28: an oracle constructed with default settings has not read the contract
\* before the first getCommunityContract call, has read it exactly once after
\* it, and a call made after the contract is cached returns the cached contract
\* without another read
C28_ReadOnceThenCached ==
    /\ [](contract.skipSetup =>
             contract.self.readContractCalls = (IF contractCalls = 0 THEN 0 ELSE 1))
    /\ [][C28_CachedCallStep]_vars

\* the first call read the contract and a later call got the cached one
C28_Witness ==
    /\ contract.skipSetup
    /\ Len(contract.returned) = 2
    /\ contract.returned[1].how = "read"
    /\ contract.returned[2].how = "cached"
    /\ contract.returned[2].contract = contract.returned[1].contract
    /\ contract.self.readContractCalls = 1

C29_PendingCallStep ==
    IsPendingCallStep =>
        /\ contract'.self.readContractCalls = contract.self.readContractCalls
        /\ contract'.awaiting[Len(contract'.awaiting)].how = "promise"

\* C29: a getCommunityContract call made while a contract read is pending
\* awaits that read; the contract reader is invoked once in total and the
\* callers receive the same contract
C29_SharedRead ==
    /\ [][C29_PendingCallStep]_vars
    /\ [](contract.self.readContractCalls <= 1)
    /\ [](\A i, j \in 1..Len(contract.returned) :
             contract.returned[i].contract = contract.returned[j].contract)

\* two callers have got the contract of the one read that both awaited
C29_Witness ==
    /\ contract.skipSetup
    /\ Len(contract.returned) = 2
    /\ contract.returned[1].how = "read"
    /\ contract.returned[2].how = "promise"
    /\ contract.returned[1].caller # contract.returned[2].caller
    /\ contract.returned[1].contract = contract.returned[2].contract
    /\ contract.self.readContractCalls = 1

\* the request promise rejects with one of the fatal codes
FatalTransportErrors ==
    {r \in RequestOutcomes : r.settled = "rejected" /\ r.text \in FATAL_CHUNK_UPLOAD_ERRORS}

\* the step aborts at once: no error is counted and no delay is waited
AbortsAtOnce ==
    /\ uploader'.totalErrors = uploader.totalErrors
    /\ net'.waits = net.waits

C31_FatalStep ==
    \A resp \in FatalTransportErrors :
        /\ HeaderSettles(resp) => (batch'.pc = "thrown" /\ AbortsAtOnce)
        /\ \A w \in Workers :
              ChunkSettles(w, resp) => (workers'[w].pc = "thrown" /\ AbortsAtOnce)

\* C31: a header or chunk request that fails as a transport error (the promise
\* rejects) with one of the fatal codes aborts immediately, as a fatal response
\* does: totalErrors is not incremented and the retry delay is not waited
C31_FatalTransportError == [][C31_FatalStep]_vars

C32_SuccessStep ==
    \A resp \in {r \in RequestOutcomes : IsSuccessResponse(r)} :
        /\ HeaderSettles(resp) => (AbortsAtOnce /\ uploader'.txPosted)
        /\ \A w \in Workers :
              ChunkSettles(w, resp) =>
                  /\ AbortsAtOnce
                  /\ uploader'.uploadedChunks = uploader.uploadedChunks + 1

\* C32: a header or chunk response with any 2xx status is a success: no error
\* is counted, no retry delay is waited and progress advances
C32_SuccessClassification == [][C32_SuccessStep]_vars

\* ---------------------------------------------------------------- a paginated listing call

ListingInit ==
    /\ PackerInit /\ FeasIdle /\ PriceIdle /\ UploadIdle /\ HierarchyIdle /\ ContractIdle
    /\ fileUpload = NoFileUpload
    /\ \E method \in ListingMethods : listing = NewListing(method)

\* the response to the pending query arrives
ListingPageArrives ==
    /\ listing.pc = "query"
    /\ \E page \in Pages :
          /\ page.hasNextPage => Len(listing.pages) + 1 < MaxPages
          /\ listing' = pageArrives(listing, page)
    /\ UNCHANGED <<packerVars, priceVars, uploadVars, hier, contract, fileUpload>>

\* the pending query fails: arweave.api.post rejects and the call throws
ListingQueryFails ==
    /\ listing.pc = "query"
    /\ listing' = [listing EXCEPT !.pc = "thrown"]
    /\ UNCHANGED <<packerVars, priceVars, uploadVars, hier, contract, fileUpload>>

SpecListing == ListingInit /\ [][ListingPageArrives \/ ListingQueryFails]_vars

\* the edges of all pages, page after page
RECURSIVE edgesOfPages(_)
edgesOfPages(pages) ==
    IF pages = <<>> THEN <<>> ELSE Head(pages).edges \o edgesOfPages(Tail(pages))

\* C33: the first query carries the empty cursor, every later query the cursor
\* of the last edge of the page before it, a further query is issued exactly
\* when the page reports hasNextPage, and the call returns, after the page that
\* reports hasNextPage = false, the entities of all pages, each once, in order
C33_CursorThreading ==
    LET queries == listing.queries
        pages == listing.pages
        edges == edgesOfPages(pages)
    IN listing.pc # "idle" =>
          /\ queries[1] = EmptyCursor
          /\ \A i \in 2..Len(queries) :
                /\ pages[i - 1].hasNextPage
                /\ queries[i] = pages[i - 1].edges[Len(pages[i - 1].edges)].cursor
          /\ listing.pc = "query" => Len(queries) = Len(pages) + 1
          /\ listing.pc = "returned" =>
                /\ Len(queries) = Len(pages)
                /\ ~pages[Len(pages)].hasNextPage
                /\ Len(listing.allEntities) = Len(edges)
                /\ \A k \in 1..Len(edges) : listing.allEntities[k] = edges[k].node

\* three pages have been listed; the first has two edges with different cursors
C33_Witness ==
    /\ listing.pc = "returned"
    /\ Len(listing.pages) = 3
    /\ Len(listing.pages[1].edges) = 2
    /\ listing.pages[1].edges[1].cursor # listing.pages[1].edges[2].cursor
    /\ listing.queries[2] = listing.pages[1].edges[2].cursor
    /\ Len(listing.allEntities) >= 4

C34_Counters ==
    /\ 0 <= uploader.uploadedChunks
    /\ uploader.uploadedChunks <= uploader.chunkOffset
    /\ uploader.chunkOffset <= uploader.totalChunks

C34_Percentage ==
    LET pct == pctComplete(uploader)
    IN /\ NumberIsInteger(pct)
       /\ pct.num \in 0..100
       /\ pct.num = 100 => uploader.uploadedChunks = uploader.totalChunks

C34_NeverBack ==
    /\ uploader'.uploadedChunks >= uploader.uploadedChunks
    /\ uploader'.chunkOffset >= uploader.chunkOffset
    /\ uploader.txPosted => uploader'.txPosted

\* C34: in every state 0 <= uploadedChunks <= chunkOffset <= totalChunks, the
\* counters never decrease, txPosted never goes back to false, and pctComplete
\* is an integer between 0 and 100 that is 100 only when every chunk is uploaded
C34_ProgressInvariant == [](C34_Counters /\ C34_Percentage) /\ [][C34_NeverBack]_vars

C35_CanPackStep ==
    \A p \in Packers, byteCounts \in SessionByteCounts :
        CanPack(p, byteCounts) =>
            /\ lastOp'.ret.kind = "return"
            /\ lastOp'.ret.value \in BOOLEAN
            /\ byteCounts = <<>> => lastOp'.ret.value

\* C35: canPackDataItemsWithByteCounts returns a boolean for every sequence
\* of byte counts and never raises an error; for the empty sequence it
\* returns true
C35_CanPackIsTotal == [][C35_CanPackStep]_vars

\* sums over the bundles of a packer and over the plans of its calls
RECURSIVE SumTotalSize(_)
SumTotalSize(bs) ==
    IF bs = <<>> THEN 0 ELSE Head(bs).totalSizeOfBundle + SumTotalSize(Tail(bs))
RECURSIVE SumTotalDataItems(_)
SumTotalDataItems(bs) ==
    IF bs = <<>> THEN 0 ELSE Head(bs).totalDataItemsInBundle + SumTotalDataItems(Tail(bs))
RECURSIVE SumPlanSizes(_)
SumPlanSizes(cs) ==
    IF cs = <<>> THEN 0 ELSE Head(cs).plan.byteCountAsDataItems + SumPlanSizes(Tail(cs))
RECURSIVE SumPlanDataItems(_)
SumPlanDataItems(cs) ==
    IF cs = <<>> THEN 0 ELSE Head(cs).plan.numberOfDataItems + SumPlanDataItems(Tail(cs))

C36_PackStep ==
    \A p \in ReadyPackers :
        IsPackStep(p) =>
            LET before == packers[p].plannedBundles
                after == packers'[p].plannedBundles
                made == calls'[p][Len(calls'[p])]
                i == made.ret + 1
                sizeBefore == IF i <= Len(before) THEN before[i].totalSizeOfBundle ELSE 0
                itemsBefore == IF i <= Len(before) THEN before[i].totalDataItemsInBundle ELSE 0
            IN /\ Len(after) \in {Len(before), Len(before) + 1}
               /\ i \in 1..Len(after)
               /\ after[i].totalSizeOfBundle = sizeBefore + made.plan.byteCountAsDataItems
               /\ after[i].totalDataItemsInBundle = itemsBefore + made.plan.numberOfDataItems
               /\ \A j \in 1..Len(after) : j # i => (j <= Len(before) /\ after[j] = before[j])

C36_Conservation ==
    \A p \in ReadyPackers :
        /\ SumTotalSize(packers[p].plannedBundles) = SumPlanSizes(calls[p])
        /\ SumTotalDataItems(packers[p].plannedBundles) = SumPlanDataItems(calls[p])

\* C36: a packIntoBundle call changes exactly the bundle whose index it
\* returns, by the plan's byte count and data-item count; every other bundle
\* stays as it was, at most one bundle is added per call, and the totals over
\* all bundles equal the totals over all packed plans
C36_FrameAndConservation == [][C36_PackStep]_vars /\ []C36_Conservation

\* three plans are packed, the last one went into the first of two bundles
C36_Witness ==
    /\ Len(calls["p1"]) = 3
    /\ Len(packers["p1"].plannedBundles) = 2
    /\ calls["p1"][2].ret = 1
    /\ calls["p1"][3].ret = 0

\* ---------------------------------------------------------------- the superseded packer (BundleToPack)

\* BundlePackParams: the plan as the superseded packer names its fields
BundlePackParams(plan) ==
    [uploadOrder |-> plan.uploadStats,
     byteCountAsDataItem |-> plan.byteCountAsDataItems,
     numberOfDataItems |-> plan.numberOfDataItems]

\* BundleToPack.addToBundle
addToBundleToPack(bundle, params) ==
    [bundle EXCEPT
        !.totalSize = @ + params.byteCountAsDataItem,
        !.totalDataItems = @ + params.numberOfDataItems,
        !.uploadOrders =
            IF params.uploadOrder # undefined THEN Append(@, params.uploadOrder) ELSE @]

\* new BundleToPack(initialBundlePackParams, maxBundleSize, maxDataItemLimit)
NewBundleToPack(params, maxBundleSize, maxDataItemLimit) ==
    addToBundleToPack(
        [uploadOrders |-> <<>>, totalSize |-> 0, totalDataItems |-> 0,
         maxBundleSize |-> maxBundleSize, maxDataItemLimit |-> maxDataItemLimit],
        params)

\* a faulty variant: a plan that fills a bundle exactly is not let in
fitsBundleToPackStrictly(bundle, params) ==
    /\ params.byteCountAsDataItem < bundle.maxBundleSize - bundle.totalSize
    /\ params.numberOfDataItems < bundle.maxDataItemLimit - bundle.totalDataItems

\* +byteCountAsDataItem <= bundle.remainingSize && numberOfDataItems <= bundle.remainingDataItems
fitsBundleToPack(bundle, params) ==
    /\ params.byteCountAsDataItem <= bundle.maxBundleSize - bundle.totalSize
    /\ params.numberOfDataItems <= bundle.maxDataItemLimit - bundle.totalDataItems

\* new LowestIndexBundlePacker(maxBundleSize, maxDataItemLimit) of the
\* superseded implementation: no validation, an empty bundle list
SupersededPacker(maxBundleSize, maxDataItemLimit) ==
    [state |-> "ready", maxBundleSize |-> maxBundleSize,
     maxDataItemLimit |-> maxDataItemLimit, bundles |-> <<>>]

\* the loop of the superseded packIntoBundle from `index` on (0-based)
RECURSIVE supersededPackScan(_, _, _)
supersededPackScan(self, params, index) ==
    IF index < Len(self.bundles)
    THEN IF fitsBundleToPack(self.bundles[index + 1], params)
         THEN [ret |-> index,
               self |-> [self EXCEPT !.bundles[index + 1] = addToBundleToPack(@, params)]]
         ELSE supersededPackScan(self, params, index + 1)
    ELSE LET pushed == Append(self.bundles,
                              NewBundleToPack(params, self.maxBundleSize, self.maxDataItemLimit))
         IN [ret |-> Len(pushed) - 1, self |-> [self EXCEPT !.bundles = pushed]]

\* the superseded LowestIndexBundlePacker.packIntoBundle
supersededPackIntoBundle(self, params) == supersededPackScan(self, params, 0)

\* "p1" is a canonical packer and "p2" a superseded one of the same capacity;
\* every plan is packed into both
EquivInit == PackerInit /\ FeasIdle /\ PriceIdle /\ UploadIdle /\ HierarchyIdle /\ ContractIdle /\ DaoIdle

\* the data-item limits of a capacity: integers of 2 or more
CapacityLimits == {limit \in LimitInputs : IsValidLimit(limit)}

EquivConstruct ==
    /\ packers["p1"].state = "none"
    /\ \E size \in BundleSizes, limit \in CapacityLimits :
          /\ packers' = [packers EXCEPT
                            !["p1"] = constructor(size, limit),
                            !["p2"] = SupersededPacker(size, IntegerValue(limit))]
          /\ lastOp' = [op |-> "constructor", packer |-> "p1", maxDataItemLimit |-> limit]
    /\ UNCHANGED <<calls, feas, priceVars, uploadVars, indexVars>>

EquivPack ==
    /\ packers["p1"].state = "ready"
    /\ Len(calls["p1"]) < MaxCalls
    /\ \E plan \in DataItemPlans :
          LET canonical == packIntoBundle(packers["p1"], plan)
              superseded == supersededPackIntoBundle(packers["p2"], BundlePackParams(plan))
          IN /\ packers' = [packers EXCEPT !["p1"] = canonical.self, !["p2"] = superseded.self]
             /\ calls' = [calls EXCEPT
                             !["p1"] = Append(@, [plan |-> plan, ret |-> canonical.ret]),
                             !["p2"] = Append(@, [plan |-> plan, ret |-> superseded.ret])]
             /\ lastOp' = [op |-> "packIntoBundle", packer |-> "p1", ret |-> canonical.ret]
    /\ UNCHANGED <<feas, priceVars, uploadVars, indexVars>>

SpecEquivalence == EquivInit /\ [][EquivConstruct \/ EquivPack]_vars

\* C37: for every capacity (S, N) with N >= 2 and every sequence of plans the
\* superseded and the canonical packer return the same index for every
\* packIntoBundle call and hold the same totalSize and totalDataItems in
\* every bundle after each call
C37_PackersAgree ==
    packers["p1"].state = "ready" =>
        LET canonical == packers["p1"].plannedBundles
            superseded == packers["p2"].bundles
        IN /\ Len(calls["p1"]) = Len(calls["p2"])
           /\ \A i \in 1..Len(calls["p1"]) : calls["p1"][i].ret = calls["p2"][i].ret
           /\ Len(canonical) = Len(superseded)
           /\ \A i \in 1..Len(canonical) :
                 /\ canonical[i].totalSizeOfBundle = superseded[i].totalSize
                 /\ canonical[i].totalDataItemsInBundle = superseded[i].totalDataItems

\* both packers put a plan that fills the first bundle exactly into it
C37_Witness ==
    /\ Len(calls["p1"]) = 3
    /\ calls["p2"][3].ret = 0
    /\ Len(packers["p2"].bundles) = 2
    /\ packers["p2"].bundles[1].totalSize = packers["p2"].maxBundleSize
    /\ packers["p1"].plannedBundles[1].totalSizeOfBundle = packers["p1"].maxBundleSize

\* ---------------------------------------------------------------- the inverse estimate under linear pricing

\* an oracle with price(b) = base + perChunk * ceil(b / 262144), perChunk > 0
LinearBasePrices == {0, 2, 5}
LinearPerChunkPrices == {1, 2, 3}
linearPrice(base, perChunk, byteCount) == base + perChunk * bytesToChunks(byteCount)

\* the linear oracle answers the pending query: any base price for 0 bytes,
\* any positive price per chunk on top of the answered base price after that
LinearOracleReply ==
    /\ lookups["c1"].pc = "awaitOracle"
    /\ IF lookups["c1"].chunks = 0
       THEN \E base \in LinearBasePrices :
               OracleReply("c1", linearPrice(base, 1, lookups["c1"].byteCount))
       ELSE \E perChunk \in LinearPerChunkPrices :
               OracleReply("c1", linearPrice(cachedPrice(cachedPricePerChunk, 0).value,
                                             perChunk, lookups["c1"].byteCount))
    /\ UNCHANGED <<inverse, packerVars, uploadVars, indexVars>>

SpecLinear ==
    PriceInit /\ [][InverseCall \/ InverseBasePrice \/ InverseOneChunkPrice \/ LinearOracleReply]_vars

\* C38: under linear pricing with a positive price per chunk, for an amount
\* a >= price(1) the byte count B returned by getByteCountForWinston(a) has
\* price(B) <= a < price(B + 262144), and no smaller amount gets a larger byte count
C38_LargestAffordable ==
    (inverse.pc = "done" /\ inverse.priced /\ inverse.winston >= inverse.one) =>
        LET base == inverse.base
            perChunk == inverse.one - inverse.base
        IN /\ inverse.result.kind = "return"
           /\ linearPrice(base, perChunk, inverse.result.value) <= inverse.winston
           /\ inverse.winston < linearPrice(base, perChunk, inverse.result.value + byteCountOfChunk)
           /\ \A smaller \in {a \in WinstonAmounts : a <= inverse.winston} :
                 LET estimate == byteCountForPrices(smaller, inverse.base, inverse.one)
                 IN estimate.kind = "return" /\ estimate.value <= inverse.result.value

\* 12 Winston at a base price of 2 and 3 per chunk buy three chunks
C38_Witness ==
    /\ inverse.pc = "done"
    /\ inverse.winston = 12 /\ inverse.base = 2 /\ inverse.one = 5
    /\ inverse.result = Returns(3 * byteCountOfChunk)

\* ---------------------------------------------------------------- an uploadFile call

FileUploadInit ==
    /\ PackerInit /\ FeasIdle /\ PriceIdle /\ UploadIdle /\ HierarchyIdle /\ ContractIdle
    /\ listing = NoListing
    /\ \E dryRun \in BOOLEAN, existingFileId \in ExistingFileIds :
          fileUpload = NewFileUpload(dryRun, existingFileId)

FileDataPrepared ==
    /\ fileUpload.pc = "prepareData"
    /\ \E id \in TransactionIdValues, needed \in 1..MaxUploadCalls :
          fileUpload' = dataTransactionPrepared(fileUpload, id, needed)
    /\ UNCHANGED <<packerVars, priceVars, uploadVars, hier, contract, listing>>

FileDataChunkUploaded ==
    /\ fileUpload.pc = "uploadData"
    /\ fileUpload' = dataChunkUploaded(fileUpload)
    /\ UNCHANGED <<packerVars, priceVars, uploadVars, hier, contract, listing>>

FileMetaDataPrepared ==
    /\ fileUpload.pc = "prepareMetaData"
    /\ \E id \in TransactionIdValues, needed \in 1..MaxUploadCalls :
          fileUpload' = metaDataTransactionPrepared(fileUpload, id, needed)
    /\ UNCHANGED <<packerVars, priceVars, uploadVars, hier, contract, listing>>

FileMetaDataChunkUploaded ==
    /\ fileUpload.pc = "uploadMetaData"
    /\ fileUpload' = metaDataChunkUploaded(fileUpload)
    /\ UNCHANGED <<packerVars, priceVars, uploadVars, hier, contract, listing>>

\* preparing a transaction or an uploadChunk call fails
FileUploadThrows ==
    /\ fileUpload.pc \in {"prepareData", "uploadData", "prepareMetaData", "uploadMetaData"}
    /\ fileUpload' = uploadFileThrows(fileUpload)
    /\ UNCHANGED <<packerVars, priceVars, uploadVars, hier, contract, listing>>

FileUploadNext ==
    \/ FileDataPrepared \/ FileDataChunkUploaded
    \/ FileMetaDataPrepared \/ FileMetaDataChunkUploaded
    \/ FileUploadThrows

SpecFileUpload == FileUploadInit /\ [][FileUploadNext]_vars

\* the data upload has run to completion
DataUploadComplete ==
    /\ fileUpload.dataUploader.created
    /\ fileUpload.dataUploader.calls = fileUpload.dataUploader.needed

\* C39: unless dryRun, the metadata transaction is prepared and its upload
\* started only after the data upload has completed; the metadata carries the
\* id of the data transaction; after a failed data upload no metadata
\* transaction is uploaded; in dryRun neither transaction is uploaded
C39_UploadOrdering ==
    /\ fileUpload.metaDataTrx # NoTransaction =>
          /\ fileUpload.metadataTrxData.dataTxId = fileUpload.dataTrx
          /\ fileUpload.dataTrx # NoTransaction
          /\ ~fileUpload.dryRun => DataUploadComplete
    /\ fileUpload.metaDataUploader.created => DataUploadComplete
    /\ fileUpload.pc = "thrown at uploadData" =>
          /\ fileUpload.metaDataTrx = NoTransaction
          /\ ~fileUpload.metaDataUploader.created
    /\ fileUpload.dryRun =>
          /\ ~fileUpload.dataUploader.created
          /\ ~fileUpload.metaDataUploader.created
    /\ fileUpload.pc = "returned" =>
          /\ fileUpload.result.dataTrxId = fileUpload.metadataTrxData.dataTxId
          /\ ~fileUpload.dryRun =>
                fileUpload.metaDataUploader.calls = fileUpload.metaDataUploader.needed

\* both transactions have been uploaded, the data in two calls
C39_Witness ==
    /\ fileUpload.pc = "returned"
    /\ ~fileUpload.dryRun
    /\ fileUpload.dataUploader.calls = 2
    /\ fileUpload.metaDataUploader.calls >= 1
    /\ fileUpload.metadataTrxData.dataTxId = "tx 2"

====
